---- MODULE Spec2Model ----
(***************************************************************************)
(* Model of the capnp network generator: the regeneration merger of the    *)
(* C++ emitters, the id derivation engine, the wire-schema emitter and the *)
(* schema parser.  Text is modelled as a sequence of tokens: a marker      *)
(* string, a newline, one indentation (four spaces), one piece of user     *)
(* text or one stretch of generated text is one element of the sequence.   *)
(***************************************************************************)
EXTENDS Integers, Sequences, FiniteSets, TLC

VARIABLES
    kind, exists, file, sv, before, beforeExists, runs, justRan, edited, edits, changed, cleanRun,
    idRoot, idName, idOut, idPrev, idCalls, idX, idText, idBack, idPc,
    wSchema, wFile, wOut, wFirst, wRuns, wEdited,
    pItems, pInput, pPrev, pPrevStatus, pBefore, pSchema, pStatus,
    fSchema, fName, fOut, fState,
    qKind, qSchema, qA, qB, qOutA, qOutB, qState,
    tLine, tResult, tState,
    lWhich, lSrc, lPos, lOp, lResult, lPrevOp, lPrevResult, lPosBefore, lEofSeen, lEofBefore, lCalls,
    rInput, rCpp, rFault, rDisk0, rDisk, rPc, rSchema, rRan, rRaised,
    eSrc, ePosS, ePosL, eTokS, eTokL, eCalls,
    nLine, nInput, nStatus, nError, nLineError

regenVars == <<kind, exists, file, sv, before, beforeExists, runs, justRan, edited, edits, changed, cleanRun>>

idVars == <<idRoot, idName, idOut, idPrev, idCalls, idX, idText, idBack, idPc>>

wireVars == <<wSchema, wFile, wOut, wFirst, wRuns, wEdited>>

parseVars == <<pItems, pInput, pPrev, pPrevStatus, pBefore, pSchema, pStatus>>

structVars == <<fSchema, fName, fOut, fState>>

pairVars == <<qKind, qSchema, qA, qB, qOutA, qOutB, qState>>

typeVars == <<tLine, tResult, tState>>

lexVars == <<lWhich, lSrc, lPos, lOp, lResult, lPrevOp, lPrevResult, lPosBefore, lEofSeen, lEofBefore, lCalls>>

runVars == <<rInput, rCpp, rFault, rDisk0, rDisk, rPc, rSchema, rRan, rRaised>>

bothVars == <<eSrc, ePosS, ePosL, eTokS, eTokL, eCalls>>

nestVars == <<nLine, nInput, nStatus, nError, nLineError>>

vars == <<regenVars, idVars, wireVars, parseVars, structVars, pairVars, typeVars, lexVars, runVars, bothVars, nestVars>>

\* What a step of one part of the program leaves alone.
notRegenVars == <<idVars, wireVars, parseVars, structVars, pairVars, typeVars, lexVars, runVars, bothVars, nestVars>>

notIdVars == <<regenVars, wireVars, parseVars, structVars, pairVars, typeVars, lexVars, runVars, bothVars, nestVars>>

notWireVars == <<regenVars, idVars, parseVars, structVars, pairVars, typeVars, lexVars, runVars, bothVars, nestVars>>

notParseVars == <<regenVars, idVars, wireVars, structVars, pairVars, typeVars, lexVars, runVars, bothVars, nestVars>>

notStructVars == <<regenVars, idVars, wireVars, parseVars, pairVars, typeVars, lexVars, runVars, bothVars, nestVars>>

notPairVars == <<regenVars, idVars, wireVars, parseVars, structVars, typeVars, lexVars, runVars, bothVars, nestVars>>

notTypeVars == <<regenVars, idVars, wireVars, parseVars, structVars, pairVars, lexVars, runVars, bothVars, nestVars>>

notLexVars == <<regenVars, idVars, wireVars, parseVars, structVars, pairVars, typeVars, runVars, bothVars, nestVars>>

notRunVars == <<regenVars, idVars, wireVars, parseVars, structVars, pairVars, typeVars, lexVars, bothVars, nestVars>>

notBothVars == <<regenVars, idVars, wireVars, parseVars, structVars, pairVars, typeVars, lexVars, runVars, nestVars>>

notNestVars == <<regenVars, idVars, wireVars, parseVars, structVars, pairVars, typeVars, lexVars, runVars, bothVars>>

\* The parts of the program a specification does not exercise stand still.
RegenIdle ==
    /\ kind = "header"
    /\ exists = FALSE
    /\ file = <<>>
    /\ sv = 1
    /\ before = <<>>
    /\ beforeExists = FALSE
    /\ runs = 0
    /\ justRan = FALSE
    /\ edited = FALSE
    /\ edits = 0
    /\ changed = FALSE
    /\ cleanRun = FALSE

IdIdle ==
    /\ idRoot = <<>>
    /\ idName = <<>>
    /\ idOut = <<>>
    /\ idPrev = <<>>
    /\ idCalls = 0
    /\ idX = <<>>
    /\ idText = <<>>
    /\ idBack = <<>>
    /\ idPc = "idle"

WireIdle ==
    /\ wSchema = <<>>
    /\ wFile = [present |-> FALSE, text |-> <<>>]
    /\ wOut = <<>>
    /\ wFirst = <<>>
    /\ wRuns = 0
    /\ wEdited = FALSE

ParseIdle ==
    /\ pItems = <<>>
    /\ pInput = <<>>
    /\ pPrev = <<>>
    /\ pPrevStatus = "none"
    /\ pBefore = <<>>
    /\ pSchema = <<>>
    /\ pStatus = "idle"

StructIdle ==
    /\ fSchema = <<>>
    /\ fName = <<>>
    /\ fOut = <<>>
    /\ fState = "idle"

PairIdle ==
    /\ qKind = "header"
    /\ qSchema = 1
    /\ qA = <<>>
    /\ qB = <<>>
    /\ qOutA = <<>>
    /\ qOutB = <<>>
    /\ qState = "idle"

TypeIdle ==
    /\ tLine = <<>>
    /\ tResult = <<>>
    /\ tState = "idle"

LexIdle ==
    /\ lWhich = "idle"
    /\ lSrc = <<>>
    /\ lPos = 1
    /\ lOp = "none"
    /\ lResult = <<>>
    /\ lPrevOp = "none"
    /\ lPrevResult = <<>>
    /\ lPosBefore = 1
    /\ lEofSeen = FALSE
    /\ lEofBefore = FALSE
    /\ lCalls = 0

RunIdle ==
    /\ rInput = <<>>
    /\ rCpp = FALSE
    /\ rFault = "none"
    /\ rDisk0 = <<>>
    /\ rDisk = <<>>
    /\ rPc = "idle"
    /\ rSchema = <<>>
    /\ rRan = <<>>
    /\ rRaised = "none"

BothIdle ==
    /\ eSrc = <<>>
    /\ ePosS = 1
    /\ ePosL = 1
    /\ eTokS = <<>>
    /\ eTokL = <<>>
    /\ eCalls = 0

NestIdle ==
    /\ nLine = <<>>
    /\ nInput = <<>>
    /\ nStatus = "idle"
    /\ nError = ""
    /\ nLineError = ""

(***************************************************************************)
(* Bounds of the model.                                                    *)
(***************************************************************************)
MaxPriorLen == 1
MaxRuns == 2
MaxEdits == 1
NumSchemas == 2

(***************************************************************************)
(* Text tokens.                                                            *)
(***************************************************************************)
NL == "\n"
IND == "    "

\* src/src/cpp_header_generator.cpp:18-25
USER_INCLUDES_START == "// USER_INCLUDES_START"
USER_INCLUDES_END == "// USER_INCLUDES_END"
USER_METHODS_START == "// USER_METHODS_START"
USER_METHODS_END == "// USER_METHODS_END"
USER_PROTECTED_START == "// USER_PROTECTED_START"
USER_PROTECTED_END == "// USER_PROTECTED_END"
USER_PRIVATE_START == "// USER_PRIVATE_START"
USER_PRIVATE_END == "// USER_PRIVATE_END"
\* src/src/cpp_source_generator.cpp:20-31
USER_IMPL_INCLUDES_START == "// USER_IMPL_INCLUDES_START"
USER_IMPL_INCLUDES_END == "// USER_IMPL_INCLUDES_END"
USER_CONSTRUCTOR_START == "// USER_CONSTRUCTOR_START"
USER_CONSTRUCTOR_END == "// USER_CONSTRUCTOR_END"
USER_TO_CAPNP_START == "// USER_TO_CAPNP_START"
USER_TO_CAPNP_END == "// USER_TO_CAPNP_END"
USER_FROM_CAPNP_START == "// USER_FROM_CAPNP_START"
USER_FROM_CAPNP_END == "// USER_FROM_CAPNP_END"
USER_COPY_FROM_START == "// USER_COPY_FROM_START"
USER_COPY_FROM_END == "// USER_COPY_FROM_END"
USER_IMPL_START == "// USER_IMPL_START"
USER_IMPL_END == "// USER_IMPL_END"
\* src/src/cpp_enum_generator.cpp:21-22
USER_DEFINITIONS_START == "// USER_DEFINITIONS_START"
USER_DEFINITIONS_END == "// USER_DEFINITIONS_END"

\* The marker catalog of each artifact kind, as <<start, end>> pairs in the
\* order in which the emitter reads them.
HeaderSlots ==
    << <<USER_INCLUDES_START, USER_INCLUDES_END>>,
       <<USER_METHODS_START, USER_METHODS_END>>,
       <<USER_PROTECTED_START, USER_PROTECTED_END>>,
       <<USER_PRIVATE_START, USER_PRIVATE_END>> >>

SourceSlots ==
    << <<USER_IMPL_INCLUDES_START, USER_IMPL_INCLUDES_END>>,
       <<USER_CONSTRUCTOR_START, USER_CONSTRUCTOR_END>>,
       <<USER_TO_CAPNP_START, USER_TO_CAPNP_END>>,
       <<USER_FROM_CAPNP_START, USER_FROM_CAPNP_END>>,
       <<USER_COPY_FROM_START, USER_COPY_FROM_END>>,
       <<USER_IMPL_START, USER_IMPL_END>> >>

EnumsSlots ==
    << <<USER_INCLUDES_START, USER_INCLUDES_END>>,
       <<USER_DEFINITIONS_START, USER_DEFINITIONS_END>> >>

Kinds == {"header", "source", "enums"}

SlotsOf(k) ==
    IF k = "header" THEN HeaderSlots
    ELSE IF k = "source" THEN SourceSlots
    ELSE EnumsSlots

Range(s) == {s[i] : i \in 1..Len(s)}

MarkersOf(k) == UNION {{p[1], p[2]} : p \in Range(SlotsOf(k))}

AllMarkers == UNION {MarkersOf(k) : k \in Kinds}

AllMarkerSet ==
    {USER_INCLUDES_START, USER_INCLUDES_END, USER_METHODS_START, USER_METHODS_END,
     USER_PROTECTED_START, USER_PROTECTED_END, USER_PRIVATE_START, USER_PRIVATE_END,
     USER_IMPL_INCLUDES_START, USER_IMPL_INCLUDES_END, USER_CONSTRUCTOR_START,
     USER_CONSTRUCTOR_END, USER_TO_CAPNP_START, USER_TO_CAPNP_END,
     USER_FROM_CAPNP_START, USER_FROM_CAPNP_END, USER_COPY_FROM_START,
     USER_COPY_FROM_END, USER_IMPL_START, USER_IMPL_END,
     USER_DEFINITIONS_START, USER_DEFINITIONS_END}

(***************************************************************************)
(* extract_between_markers: the same function in the three emitters.       *)
(***************************************************************************)
\* std::string::find(token, from): the first position >= from, 0 for npos.
Find(content, tok, from) ==
    LET hits == {i \in from..Len(content) : content[i] = tok}
    IN  IF hits = {} THEN 0 ELSE CHOOSE i \in hits : \A j \in hits : i <= j

\* Mutant: the rest of the start marker's line is not skipped.
extract_without_line_skip(content, start_marker, end_marker) ==
    LET found == Find(content, start_marker, 1)
    IN  IF found = 0 THEN <<>>
        ELSE
            LET start_pos == found + 1
                end_pos == Find(content, end_marker, start_pos)
            IN  IF end_pos = 0 THEN <<>>
                ELSE SubSeq(content, start_pos, end_pos - 1)

\* Mutant: without an end marker the rest of the file is the slot text.
extract_to_end_of_file(content, start_marker, end_marker) ==
    LET found == Find(content, start_marker, 1)
    IN  IF found = 0 THEN <<>>
        ELSE
            LET after == found + 1
                line_end == Find(content, NL, after)
                start_pos == IF line_end # 0 THEN line_end + 1 ELSE after
                end_pos == Find(content, end_marker, start_pos)
            IN  IF end_pos = 0 THEN SubSeq(content, start_pos, Len(content))
                ELSE SubSeq(content, start_pos, end_pos - 1)

\* Mutant: the slot text starts at the top of the file.
extract_from_top_of_file(content, start_marker, end_marker) ==
    LET found == Find(content, start_marker, 1)
    IN  IF found = 0 THEN <<>>
        ELSE
            LET end_pos == Find(content, end_marker, found + 1)
            IN  IF end_pos = 0 THEN <<>>
                ELSE SubSeq(content, 1, found - 1) \o SubSeq(content, found + 1, end_pos - 1)

extract_between_markers(content, start_marker, end_marker) ==
    LET found == Find(content, start_marker, 1)
    IN  IF found = 0 THEN <<>>
        ELSE
            LET after == found + 1
                line_end == Find(content, NL, after)
                start_pos == IF line_end # 0 THEN line_end + 1 ELSE after
                end_pos == Find(content, end_marker, start_pos)
            IN  IF end_pos = 0 THEN <<>>
                ELSE SubSeq(content, start_pos, end_pos - 1)

\* _read_user_section: a file that cannot be read gives the empty text.
read_user_section(present, content, start_marker, end_marker) ==
    IF ~present THEN <<>>
    ELSE extract_between_markers(content, start_marker, end_marker)

(***************************************************************************)
(* Generated text.  A stretch of literal template text is one token; a     *)
(* stretch that depends on the schema (namespace, parent, id, fields) is   *)
(* its label followed by the token of the schema it was rendered from.     *)
(***************************************************************************)
SchemaTag == <<"schema#1", "schema#2", "schema#3", "schema#4">>

Gen(label, s) == <<label, SchemaTag[s]>>

\* CppHeaderGenerator::_generate_header_content
generate_header_content(s, user_includes, user_methods, user_protected, user_private) ==
    <<"#pragma once ... namespace capnp { ... }", NL, NL>>
    \o <<USER_INCLUDES_START, NL>>
    \o (IF user_includes # <<>> THEN user_includes ELSE <<>>)
    \o <<USER_INCLUDES_END, NL, NL>>
    \o Gen("namespace ... class ... // ---- Generated Fields ----", s) \o <<NL>>
    \o <<IND, USER_METHODS_START, NL>>
    \o (IF user_methods # <<>> THEN user_methods ELSE <<>>)
    \o <<IND, USER_METHODS_END, NL, NL>>
    \o <<"protected:", NL>>
    \o <<IND, USER_PROTECTED_START, NL>>
    \o (IF user_protected # <<>> THEN user_protected ELSE <<>>)
    \o <<IND, USER_PROTECTED_END, NL, NL>>
    \o <<"private:", NL, "void _copy_from(...);", NL, NL>>
    \o <<IND, USER_PRIVATE_START, NL>>
    \o (IF user_private # <<>> THEN user_private ELSE <<>>)
    \o <<IND, USER_PRIVATE_END, NL>>
    \o <<"};", NL, NL>>
    \o Gen("} // namespace", s) \o <<NL, NL, "#endif", NL>>

\* CppSourceGenerator::_generate_constructor
generate_constructor(s, user_constructor) ==
    Gen("Name::Name() [: Parent()]", s) \o <<NL, "{", NL>>
    \o <<USER_CONSTRUCTOR_START, NL>>
    \o (IF user_constructor # <<>> THEN user_constructor ELSE <<>>)
    \o <<USER_CONSTRUCTOR_END, NL>>
    \o <<"}", NL, NL>>

\* CppSourceGenerator::_generate_to_capnp
generate_to_capnp(s, user_to_capnp) ==
    Gen("void Name::to_capnp(...) { fields", s) \o <<NL>>
    \o <<USER_TO_CAPNP_START, NL>>
    \o (IF user_to_capnp # <<>> THEN user_to_capnp ELSE <<>>)
    \o <<USER_TO_CAPNP_END, NL>>
    \o <<"}", NL, NL>>

\* CppSourceGenerator::_generate_from_capnp
generate_from_capnp(s, user_from_capnp) ==
    Gen("void Name::from_capnp(...) { fields", s) \o <<NL>>
    \o <<USER_FROM_CAPNP_START, NL>>
    \o (IF user_from_capnp # <<>> THEN user_from_capnp ELSE <<>>)
    \o <<USER_FROM_CAPNP_END, NL>>
    \o <<"}", NL, NL>>

\* CppSourceGenerator::_generate_copy_from
generate_copy_from(s, user_copy_from) ==
    Gen("void Name::_copy_from(...) { fields", s) \o <<NL>>
    \o <<USER_COPY_FROM_START, NL>>
    \o (IF user_copy_from # <<>> THEN user_copy_from ELSE <<>>)
    \o <<USER_COPY_FROM_END, NL>>
    \o <<"}", NL, NL>>

\* CppSourceGenerator::_generate_source_content
generate_source_content(s, user_impl_includes, user_constructor, user_to_capnp, user_from_capnp, user_copy_from, user_impl) ==
    <<"#include ...", NL, NL>>
    \o <<USER_IMPL_INCLUDES_START, NL>>
    \o (IF user_impl_includes # <<>> THEN user_impl_includes ELSE <<>>)
    \o <<USER_IMPL_INCLUDES_END, NL, NL>>
    \o Gen("namespace", s) \o <<NL, "{", NL, NL>>
    \o <<"// ---- Constructors and Destructor ----", NL, NL>>
    \o generate_constructor(s, user_constructor)
    \o Gen("copy/move/assign ... // ---- MessageBase Interface ----", s) \o <<NL, NL>>
    \o <<"// ---- Cap'n Proto Conversion Methods ----", NL, NL>>
    \o generate_to_capnp(s, user_to_capnp)
    \o generate_from_capnp(s, user_from_capnp)
    \o <<"// ---- Private Helpers ----", NL, NL>>
    \o generate_copy_from(s, user_copy_from)
    \o <<USER_IMPL_START, NL>>
    \o (IF user_impl # <<>> THEN user_impl ELSE <<>>)
    \o <<USER_IMPL_END, NL, NL>>
    \o Gen("} // namespace", s) \o <<NL>>

\* CppEnumGenerator::_generate_enums_header_content
generate_enums_header_content(s, user_includes, user_definitions) ==
    <<"#pragma once ... #include <ostream>", NL, NL>>
    \o <<USER_INCLUDES_START, NL>>
    \o (IF user_includes # <<>> THEN user_includes ELSE <<>>)
    \o <<USER_INCLUDES_END, NL, NL>>
    \o Gen("namespace ... enum classes", s) \o <<NL, NL>>
    \o <<USER_DEFINITIONS_START, NL>>
    \o (IF user_definitions # <<>> THEN user_definitions
        ELSE <<"// Add your custom enum definitions or helper functions here", NL,
               "// Example:", NL,
               "// inline bool is_success(Status status) ...", NL>>)
    \o <<USER_DEFINITIONS_END, NL, NL>>
    \o Gen("} // namespace", s) \o <<NL, NL, "#endif // ENUMS_HPP", NL>>

\* CppHeaderGenerator::_generate_header_for_message: read the four slots of
\* the file on disk, render, overwrite.
generate_header_for_message(s, present, content) ==
    generate_header_content(s,
        read_user_section(present, content, USER_INCLUDES_START, USER_INCLUDES_END),
        read_user_section(present, content, USER_METHODS_START, USER_METHODS_END),
        read_user_section(present, content, USER_PROTECTED_START, USER_PROTECTED_END),
        read_user_section(present, content, USER_PRIVATE_START, USER_PRIVATE_END))

\* CppSourceGenerator::_generate_source_for_message
generate_source_for_message(s, present, content) ==
    generate_source_content(s,
        read_user_section(present, content, USER_IMPL_INCLUDES_START, USER_IMPL_INCLUDES_END),
        read_user_section(present, content, USER_CONSTRUCTOR_START, USER_CONSTRUCTOR_END),
        read_user_section(present, content, USER_TO_CAPNP_START, USER_TO_CAPNP_END),
        read_user_section(present, content, USER_FROM_CAPNP_START, USER_FROM_CAPNP_END),
        read_user_section(present, content, USER_COPY_FROM_START, USER_COPY_FROM_END),
        read_user_section(present, content, USER_IMPL_START, USER_IMPL_END))

\* CppEnumGenerator::CppEnumGenerator
generate_enums_header(s, present, content) ==
    generate_enums_header_content(s,
        read_user_section(present, content, USER_INCLUDES_START, USER_INCLUDES_END),
        read_user_section(present, content, USER_DEFINITIONS_START, USER_DEFINITIONS_END))

(***************************************************************************)
(* The regeneration state machine: one artifact of one kind on disk, the   *)
(* generator run on it repeatedly, the user editing the file and the       *)
(* schema changing between runs.                                           *)
(***************************************************************************)
\* Text a user (or anything else) may have put into the file.
UserTokens == {"x", "y", NL, IND}

PriorAlphabet(k) == UserTokens \cup MarkersOf(k)

SeqsUpTo(S, n) == UNION {[1..m -> S] : m \in 0..n}

EditTexts ==
    {<<"x", NL>>, <<"y">>, <<"x", NL, "y", NL>>}

InsertAt(s, pos, text) == SubSeq(s, 1, pos) \o text \o SubSeq(s, pos + 1, Len(s))

RemoveAt(s, pos) == SubSeq(s, 1, pos - 1) \o SubSeq(s, pos + 1, Len(s))

RegenInit ==
    /\ kind \in Kinds
    /\ sv \in 1..NumSchemas
    /\ exists \in BOOLEAN
    /\ file \in (IF exists THEN SeqsUpTo(PriorAlphabet(kind), MaxPriorLen) ELSE {<<>>})
    /\ before = <<>>
    /\ beforeExists = FALSE
    /\ runs = 0
    /\ justRan = FALSE
    /\ edited = FALSE
    /\ edits = 0
    /\ changed = FALSE
    /\ cleanRun = FALSE
    /\ IdIdle
    /\ WireIdle
    /\ ParseIdle
    /\ StructIdle
    /\ PairIdle
    /\ TypeIdle
    /\ LexIdle
    /\ RunIdle
    /\ BothIdle
    /\ NestIdle

\* The bookkeeping every run shares: remember the file the run read, and
\* whether that file was the untouched output of a run on the same schema.
RunBookkeeping ==
    /\ runs < MaxRuns
    /\ runs' = runs + 1
    /\ before' = file
    /\ beforeExists' = exists
    /\ cleanRun' = (runs >= 1 /\ ~edited /\ ~changed)
    /\ justRan' = TRUE
    /\ edited' = FALSE
    /\ changed' = FALSE
    /\ exists' = TRUE
    /\ UNCHANGED <<kind, sv, edits>>
    /\ UNCHANGED notRegenVars

GenerateHeader ==
    /\ kind = "header"
    /\ file' = generate_header_for_message(sv, exists, file)
    /\ RunBookkeeping

GenerateSource ==
    /\ kind = "source"
    /\ file' = generate_source_for_message(sv, exists, file)
    /\ RunBookkeeping

GenerateEnums ==
    /\ kind = "enums"
    /\ file' = generate_enums_header(sv, exists, file)
    /\ RunBookkeeping

\* Between two runs the user edits the file: a text goes in at the start of
\* a line next to a marker line (the top and the bottom of a slot, and just
\* outside it), at the start or at the end of the file; or a marker string
\* is removed.
LineOf(text, pos) ==
    LET prev == {i \in 1..(pos - 1) : text[i] = NL}
        next == {i \in pos..Len(text) : text[i] = NL}
        from == IF prev = {} THEN 1 ELSE (CHOOSE i \in prev : \A j \in prev : j <= i) + 1
        to == IF next = {} THEN Len(text) ELSE CHOOSE i \in next : \A j \in next : i <= j
    IN  SubSeq(text, from, to)

HasMarker(line) == \E i \in 1..Len(line) : line[i] \in AllMarkerSet

EditPositions(text) ==
    {0, Len(text)} \cup
    {i \in 1..Len(text) :
        /\ text[i] = NL
        /\ \/ HasMarker(LineOf(text, i))
           \/ (i < Len(text) /\ HasMarker(LineOf(text, i + 1)))}

BetweenRuns ==
    /\ runs >= 1
    /\ runs < MaxRuns
    /\ before' = <<>>
    /\ beforeExists' = FALSE
    /\ justRan' = FALSE
    /\ cleanRun' = FALSE
    /\ UNCHANGED <<kind, exists, runs>>
    /\ UNCHANGED notRegenVars

UserInsert ==
    /\ ~edited
    /\ edits < MaxEdits
    /\ \E pos \in EditPositions(file), text \in EditTexts :
           file' = InsertAt(file, pos, text)
    /\ edited' = TRUE
    /\ edits' = edits + 1
    /\ BetweenRuns
    /\ UNCHANGED <<sv, changed>>

UserDelete ==
    /\ ~edited
    /\ edits < MaxEdits
    /\ \E pos \in 1..Len(file) :
           /\ file[pos] \in AllMarkerSet
           /\ file' = RemoveAt(file, pos)
    /\ edited' = TRUE
    /\ edits' = edits + 1
    /\ BetweenRuns
    /\ UNCHANGED <<sv, changed>>

SchemaChange ==
    /\ ~changed
    /\ \E s \in 1..NumSchemas : s # sv /\ sv' = s
    /\ changed' = TRUE
    /\ BetweenRuns
    /\ UNCHANGED <<file, edited, edits>>

RegenNext ==
    \/ GenerateHeader
    \/ GenerateSource
    \/ GenerateEnums
    \/ UserInsert
    \/ UserDelete
    \/ SchemaChange

SpecRegen == RegenInit /\ [][RegenNext]_vars

(***************************************************************************)
(* Lines of a text, for stating what a slot holds: the text is cut after   *)
(* every newline; a last line without a newline counts as a line.          *)
(***************************************************************************)
RECURSIVE LinesFrom(_, _)
LinesFrom(text, i) ==
    IF i > Len(text) THEN <<>>
    ELSE
        LET nl == Find(text, NL, i)
        IN  IF nl = 0 THEN <<SubSeq(text, i, Len(text))>>
            ELSE <<SubSeq(text, i, nl - 1)>> \o LinesFrom(text, nl + 1)

Lines(text) == LinesFrom(text, 1)

HasToken(line, tok) == \E i \in 1..Len(line) : line[i] = tok

\* The number of the first line from line `from` on that holds tok, 0 if none.
FirstLineWith(ls, tok, from) ==
    LET hits == {i \in from..Len(ls) : HasToken(ls[i], tok)}
    IN  IF hits = {} THEN 0 ELSE CHOOSE i \in hits : \A j \in hits : i <= j

\* The slot <<start, end>> of a text, given as its lines ls: sl is the
\* first line with the start marker, el the first later line with the end
\* marker; the user lines are the lines between the two.
SlotView(ls, slot) ==
    LET sl == FirstLineWith(ls, slot[1], 1)
        el == IF sl = 0 THEN 0 ELSE FirstLineWith(ls, slot[2], sl + 1)
    IN  [sl |-> sl, el |-> el,
         user |-> IF sl # 0 /\ el # 0 THEN SubSeq(ls, sl + 1, el - 1) ELSE <<>>]

\* The slot is well formed when both marker lines are there and the lines
\* between them hold no marker string.
WellFormedView(v) ==
    /\ v.sl # 0
    /\ v.el # 0
    /\ \A i \in 1..Len(v.user) : \A j \in 1..Len(v.user[i]) : v.user[i][j] \notin AllMarkerSet

WellFormedSlot(text, slot) == WellFormedView(SlotView(Lines(text), slot))

UserLines(text, slot) == SlotView(Lines(text), slot).user

\* C1: regeneration is idempotent: a run on the untouched output of a run
\* on the same schema leaves the artifact as it was.
C1_Idempotent ==
    (justRan /\ cleanRun) => file = before

\* The lines ls hold the lines user between a line with the start marker
\* and a line with the end marker of the slot.
HoldsBetweenMarkers(ls, slot, user) ==
    \E i \in 1..Len(ls) :
        /\ HasToken(ls[i], slot[1])
        /\ i + Len(user) + 1 <= Len(ls)
        /\ HasToken(ls[i + Len(user) + 1], slot[2])
        /\ SubSeq(ls, i + 1, i + Len(user)) = user

\* C2: user slot content survives regeneration: the user lines (one or
\* more, none holding a marker string) that the file a run read has between
\* the start-marker line and the end marker of a slot stand, the same lines
\* in the same order, between that marker pair in the file the run wrote,
\* whatever schema the run rendered.
C2_UserLinesSurvive ==
    (justRan /\ beforeExists) =>
        LET old == Lines(before)
            new == Lines(file)
        IN  \A n \in 1..Len(SlotsOf(kind)) :
                LET was == SlotView(old, SlotsOf(kind)[n])
                IN  (WellFormedView(was) /\ was.user # <<>>) =>
                        HoldsBetweenMarkers(new, SlotsOf(kind)[n], was.user)

C2_Witness ==
    /\ justRan
    /\ beforeExists
    /\ changed = FALSE
    /\ runs = 2
    /\ \E n \in 1..Len(SlotsOf(kind)) :
           /\ WellFormedSlot(before, SlotsOf(kind)[n])
           /\ UserLines(before, SlotsOf(kind)[n]) = <<<<"x">>, <<"y">>>>
           /\ HoldsBetweenMarkers(Lines(file), SlotsOf(kind)[n], <<<<"x">>, <<"y">>>>)

(***************************************************************************)
(* The id engine (id_generator.cpp).  A 64-bit word is eight limbs of      *)
(* eight bits, w[1] the least significant: every product of two limbs      *)
(* stays far below 2^31.  Text read and written by the engine is a         *)
(* sequence of one-character strings.                                      *)
(***************************************************************************)
U64Zero == <<0, 0, 0, 0, 0, 0, 0, 0>>

\* 0xcbf29ce484222325
FNV1A_OFFSET_BASIS == <<37, 35, 34, 132, 228, 156, 242, 203>>

\* 0x100000001b3
FNV1A_PRIME == <<179, 1, 0, 0, 0, 1, 0, 0>>

\* 1ULL << 63
CAPNP_ID_MSB_FLAG == <<0, 0, 0, 0, 0, 0, 0, 128>>

\* The printable characters in the order of their codes, from 32 (space);
\* the place of the grave accent (96) is kept by an empty string.
Ascii ==
  <<
    " ", "!", "\"", "#", "$", "%", "&", "'", "(", ")", "*", "+",
    ",", "-", ".", "/", "0", "1", "2", "3", "4", "5", "6", "7",
    "8", "9", ":", ";", "<", "=", ">", "?", "@", "A", "B", "C",
    "D", "E", "F", "G", "H", "I", "J", "K", "L", "M", "N", "O",
    "P", "Q", "R", "S", "T", "U", "V", "W", "X", "Y", "Z", "[",
    "\\", "]", "^", "_", "", "a", "b", "c", "d", "e", "f", "g",
    "h", "i", "j", "k", "l", "m", "n", "o", "p", "q", "r", "s",
    "t", "u", "v", "w", "x", "y", "z", "{", "|", "}", "~"
  >>

Ord(c) == 31 + (CHOOSE i \in 1..Len(Ascii) : Ascii[i] = c)

\* The bytes of a string
Bytes(name) == SubSeq([i \in 1..Len(name) |-> Ord(name[i])], 1, Len(name))

\* Bit j of a byte
BitOfByte(a, j) == (a \div (2 ^ j)) % 2

XorByte(a, b) ==
    LET x(j) == IF BitOfByte(a, j) # BitOfByte(b, j) THEN 2 ^ j ELSE 0
    IN  x(0) + x(1) + x(2) + x(3) + x(4) + x(5) + x(6) + x(7)

OrByte(a, b) ==
    LET x(j) == IF BitOfByte(a, j) = 1 \/ BitOfByte(b, j) = 1 THEN 2 ^ j ELSE 0
    IN  x(0) + x(1) + x(2) + x(3) + x(4) + x(5) + x(6) + x(7)

\* a ^ b and a | b on 64-bit words
Xor64(a, b) == SubSeq([i \in 1..8 |-> XorByte(a[i], b[i])], 1, 8)

Or64(a, b) == SubSeq([i \in 1..8 |-> OrByte(a[i], b[i])], 1, 8)

\* static_cast<uint64_t>(byte)
U64OfByte(byte) == <<byte, 0, 0, 0, 0, 0, 0, 0>>

\* (x >> shift) & 0xFF, for a shift of whole bytes
ShiftRightMask(x, shift) == x[(shift \div 8) + 1]

\* Sum of the limb products a_i * b_(k-i), i = 0..k, for limb k of a * b
LimbProducts(a, b, k) ==
    LET t(i) == IF i <= k THEN a[i + 1] * b[k - i + 1] ELSE 0
    IN  t(0) + t(1) + t(2) + t(3) + t(4) + t(5) + t(6) + t(7)

\* a * b on uint64_t: the product modulo 2^64, limb by limb with the carry
Mul64(a, b) ==
    LET s0 == LimbProducts(a, b, 0)
        s1 == (s0 \div 256) + LimbProducts(a, b, 1)
        s2 == (s1 \div 256) + LimbProducts(a, b, 2)
        s3 == (s2 \div 256) + LimbProducts(a, b, 3)
        s4 == (s3 \div 256) + LimbProducts(a, b, 4)
        s5 == (s4 \div 256) + LimbProducts(a, b, 5)
        s6 == (s5 \div 256) + LimbProducts(a, b, 6)
        s7 == (s6 \div 256) + LimbProducts(a, b, 7)
    IN  <<s0 % 256, s1 % 256, s2 % 256, s3 % 256, s4 % 256, s5 % 256, s6 % 256, s7 % 256>>

\* IdGenerator::compute_fnv1a_hash
RECURSIVE fnv1a_loop(_, _, _)
fnv1a_loop(hash, data, i) ==
    IF i > Len(data) THEN hash
    ELSE LET next == Mul64(Xor64(hash, U64OfByte(data[i])), FNV1A_PRIME)
         IN  \* the product is computed before the next round starts
             IF Len(next) = 8 THEN fnv1a_loop(next, data, i + 1) ELSE next

compute_fnv1a_hash(data) == fnv1a_loop(FNV1A_OFFSET_BASIS, data, 1)

\* The same with the parent id's bytes taken least significant first.
derive_id_little_endian(parent_id, name) ==
    LET parent_bytes == SubSeq([i \in 1..8 |-> ShiftRightMask(parent_id, 8 * (i - 1))], 1, 8)
        seed == parent_bytes \o Bytes(name)
    IN  Or64(compute_fnv1a_hash(seed), CAPNP_ID_MSB_FLAG)

\* IdGenerator::derive_id
derive_id(parent_id, name) ==
    LET parent_bytes == SubSeq([i \in 1..8 |-> ShiftRightMask(parent_id, 8 * (7 - (i - 1)))], 1, 8)
        seed == parent_bytes \o Bytes(name)
    IN  Or64(compute_fnv1a_hash(seed), CAPNP_ID_MSB_FLAG)

\* IdGenerator::generate_random_id, for one outcome of the random device
generate_random_id(random_value) == Or64(random_value, CAPNP_ID_MSB_FLAG)

HexLower == <<"0", "1", "2", "3", "4", "5", "6", "7", "8", "9", "a", "b", "c", "d", "e", "f">>

HexUpper == <<"0", "1", "2", "3", "4", "5", "6", "7", "8", "9", "A", "B", "C", "D", "E", "F">>

\* The sixteen 4-bit digits of a word, most significant first
Nibbles(id) ==
    SubSeq([i \in 1..16 |->
               LET limb == id[8 - ((i - 1) \div 2)]
               IN  IF i % 2 = 1 THEN limb \div 16 ELSE limb % 16], 1, 16)

\* operator<< of a number under std::hex: its digits without leading zeros,
\* one digit for zero
RECURSIVE SkipZeros(_, _)
SkipZeros(ns, i) ==
    IF i < Len(ns) /\ ns[i] = 0 THEN SkipZeros(ns, i + 1) ELSE i

HexText(id, digits) ==
    LET ns == Nibbles(id)
        from == SkipZeros(ns, 1)
    IN  SubSeq([i \in 1..(17 - from) |-> digits[ns[from + i - 1] + 1]], 1, 17 - from)

\* The same with std::uppercase.
format_id_uppercase(id) ==
    LET text == HexText(id, HexUpper)
        fill == SubSeq([i \in 1..16 |-> "0"], 1, 16 - Len(text))
    IN  <<"@", "0", "x">> \o fill \o text

\* IdGenerator::format_id_as_hex
format_id_as_hex(id) ==
    LET text == HexText(id, HexLower)
        fill == SubSeq([i \in 1..16 |-> "0"], 1, 16 - Len(text))
    IN  <<"@", "0", "x">> \o fill \o text

\* [0-9a-fA-F]
IsHexDigit(c) == (\E i \in 1..16 : HexLower[i] = c) \/ (\E i \in 1..16 : HexUpper[i] = c)

HexValue(c) ==
    IF \E i \in 1..16 : HexLower[i] = c
    THEN (CHOOSE i \in 1..16 : HexLower[i] = c) - 1
    ELSE (CHOOSE i \in 1..16 : HexUpper[i] = c) - 1

\* \s of the pattern
IsSpace(c) == c \in {" ", "\t", "\r", "\f", "\n"}

\* value * 16 + digit on uint64_t
RECURSIVE Times16Plus(_, _, _)
Times16Plus(value, i, carry) ==
    IF i > 8 THEN <<>>
    ELSE LET s == value[i] * 16 + carry
         IN  <<s % 256>> \o Times16Plus(value, i + 1, s \div 256)

\* std::strtoull(hex_str, nullptr, 16) on a string of at most 16 hex digits
RECURSIVE strtoull_loop(_, _, _)
strtoull_loop(value, hex_str, i) ==
    IF i > Len(hex_str) THEN value
    ELSE LET next == Times16Plus(value, 1, HexValue(hex_str[i]))
         IN  IF Len(next) = 8 THEN strtoull_loop(next, hex_str, i + 1) ELSE next

strtoull_hex(hex_str) == strtoull_loop(U64Zero, hex_str, 1)

\* std::getline: the text before the first newline
first_line_of(content) ==
    LET nls == {i \in 1..Len(content) : content[i] = NL}
    IN  IF nls = {} THEN content
        ELSE SubSeq(content, 1, (CHOOSE i \in nls : \A j \in nls : i <= j) - 1)

\* \s*; from position p on
RECURSIVE SemicolonAfterSpaces(_, _)
SemicolonAfterSpaces(line, p) ==
    IF p > Len(line) THEN FALSE
    ELSE IF line[p] = ";" THEN TRUE
    ELSE IF IsSpace(line[p]) THEN SemicolonAfterSpaces(line, p + 1)
    ELSE FALSE

\* The pattern @0x([0-9a-fA-F]{1,16})\s*; tried at position p: the number
\* of hex digits of the match (the longest that lets the rest match), or 0
IdPatternAt(line, p) ==
    IF ~(p + 2 <= Len(line) /\ line[p] = "@" /\ line[p + 1] = "0" /\ line[p + 2] = "x") THEN 0
    ELSE
        LET ks == {k \in 1..16 :
                      /\ p + 2 + k <= Len(line)
                      /\ \A j \in 1..k : IsHexDigit(line[p + 2 + j])
                      /\ SemicolonAfterSpaces(line, p + 3 + k)}
        IN  IF ks = {} THEN 0 ELSE CHOOSE k \in ks : \A j \in ks : j <= k

\* IdGenerator::extract_file_id_from_capnp
extract_file_id_from_capnp(present, content) ==
    IF ~present THEN U64Zero
    ELSE IF content = <<>> THEN U64Zero
    ELSE
        LET first_line == first_line_of(content)
            hits == {p \in 1..Len(first_line) : IdPatternAt(first_line, p) > 0}
        IN  IF hits = {} THEN U64Zero
            ELSE
                LET at == CHOOSE p \in hits : \A q \in hits : p <= q
                    hex_str == SubSeq(first_line, at + 3, at + 2 + IdPatternAt(first_line, at))
                IN  strtoull_hex(hex_str)

(***************************************************************************)
(* The id engine, called on its own: derive_id on a root and a name, then  *)
(* an id written as the first line of a file and read back.                *)
(***************************************************************************)
NumRoots == 4

MaxNameLen == 2

MaxCalls == 2

RootOf(k) == SubSeq([i \in 1..8 |-> (k * (37 * i + 11) + (k * k) * i) % 256], 1, 8)

\* 0xffffffffffffffff, 0x8000000000000000, 0x8000000000000001,
\* 0x0123456789abcdef, 0x0000000000000001
SpecialRoots ==
    { <<255, 255, 255, 255, 255, 255, 255, 255>>,
      <<0, 0, 0, 0, 0, 0, 0, 128>>,
      <<1, 0, 0, 0, 0, 0, 0, 128>>,
      <<239, 205, 171, 137, 103, 69, 35, 1>>,
      <<1, 0, 0, 0, 0, 0, 0, 0>> }

Roots == {RootOf(k) : k \in 0..NumRoots} \cup SpecialRoots

NameChars == {"A", "b", "_", "9"}

MessageTypeName == <<"M", "e", "s", "s", "a", "g", "e", "T", "y", "p", "e">>

Names == SeqsUpTo(NameChars, MaxNameLen) \cup {MessageTypeName}

\* What follows the first line of the file
HeaderRests == {<<>>, <<"@", "0", "x", "1", ";", NL>>}

IdInit ==
    /\ idRoot \in Roots
    /\ idName \in Names
    /\ idOut = <<>>
    /\ idPrev = <<>>
    /\ idCalls = 0
    /\ idX = <<>>
    /\ idText = <<>>
    /\ idBack = <<>>
    /\ idPc = "start"
    /\ RegenIdle
    /\ WireIdle
    /\ ParseIdle
    /\ StructIdle
    /\ PairIdle
    /\ TypeIdle
    /\ LexIdle
    /\ RunIdle
    /\ BothIdle
    /\ NestIdle

CallDeriveId ==
    /\ idPc \in {"start", "derived"}
    /\ idCalls < MaxCalls
    /\ idPrev' = idOut
    /\ idOut' = derive_id(idRoot, idName)
    /\ idCalls' = idCalls + 1
    /\ idPc' = "derived"
    /\ UNCHANGED <<idRoot, idName, idX, idText, idBack>>
    /\ UNCHANGED notIdVars

\* CapnpFileGenerator::_write_header, first line
write_file_id_line(id) == format_id_as_hex(id) \o <<";", NL>>

WriteHeader ==
    /\ idPc = "derived"
    /\ \E x \in {idOut, generate_random_id(idRoot), idRoot}, rest \in HeaderRests :
           /\ idX' = x
           /\ idText' = write_file_id_line(x) \o rest
    /\ idPc' = "written"
    /\ UNCHANGED <<idRoot, idName, idOut, idPrev, idCalls, idBack>>
    /\ UNCHANGED notIdVars

ReadHeader ==
    /\ idPc = "written"
    /\ idBack' = extract_file_id_from_capnp(TRUE, idText)
    /\ idPc' = "read"
    /\ UNCHANGED <<idRoot, idName, idOut, idPrev, idCalls, idX, idText>>
    /\ UNCHANGED notIdVars

IdNext ==
    \/ CallDeriveId
    \/ WriteHeader
    \/ ReadHeader

SpecId == IdInit /\ [][IdNext]_vars

(***************************************************************************)
(* FNV-1a stated on four 16-bit digits of a word, least significant first: *)
(* the prime is 2^40 + 435, so h * prime is h * 435 plus h shifted left by *)
(* 40 bits, both cut to 64 bits.                                           *)
(***************************************************************************)
Digits16(w) == <<w[1] + 256 * w[2], w[3] + 256 * w[4], w[5] + 256 * w[6], w[7] + 256 * w[8]>>

Times435(d) ==
    LET p1 == d[1] * 435
        p2 == d[2] * 435 + (p1 \div 65536)
        p3 == d[3] * 435 + (p2 \div 65536)
        p4 == d[4] * 435 + (p3 \div 65536)
    IN  <<p1 % 65536, p2 % 65536, p3 % 65536, p4 % 65536>>

ShiftLeft40(d) == <<0, 0, (d[1] * 256) % 65536, ((d[1] \div 256) + d[2] * 256) % 65536>>

Plus64(d, e) ==
    LET p1 == d[1] + e[1]
        p2 == d[2] + e[2] + (p1 \div 65536)
        p3 == d[3] + e[3] + (p2 \div 65536)
        p4 == d[4] + e[4] + (p3 \div 65536)
    IN  <<p1 % 65536, p2 % 65536, p3 % 65536, p4 % 65536>>

XorLowByte(d, byte) ==
    LET low == d[1] % 256
        differ == {j \in 0..7 : ((low \div (2 ^ j)) % 2) # ((byte \div (2 ^ j)) % 2)}
        x(j) == IF j \in differ THEN 2 ^ j ELSE 0
    IN  <<(d[1] - low) + x(0) + x(1) + x(2) + x(3) + x(4) + x(5) + x(6) + x(7), d[2], d[3], d[4]>>

RECURSIVE Fnv1a16(_, _, _)
Fnv1a16(h, data, i) ==
    IF i > Len(data) THEN h
    ELSE LET hx == XorLowByte(h, data[i])
             next == Plus64(Times435(hx), ShiftLeft40(hx))
         IN  IF Len(next) = 4 THEN Fnv1a16(next, data, i + 1) ELSE next

\* The 8 big-endian bytes of a word given by its 16-bit digits
BigEndianBytes(d) ==
    <<d[4] \div 256, d[4] % 256, d[3] \div 256, d[3] % 256,
      d[2] \div 256, d[2] % 256, d[1] \div 256, d[1] % 256>>

WithBit63(d) == <<d[1], d[2], d[3], IF d[4] >= 32768 THEN d[4] ELSE d[4] + 32768>>

Fnv1aOfRootAndName(root, name) ==
    Fnv1a16(<<8997, 33826, 40164, 52210>>, BigEndianBytes(Digits16(root)) \o Bytes(name), 1)

\* C4: once derive_id has been called on (root, name), its result is the
\* FNV-1a hash (offset basis 0xcbf29ce484222325, prime 0x100000001b3,
\* products modulo 2^64) of the 8 big-endian bytes of root followed by the
\* bytes of name, with bit 63 set; bit 63 of the result is 1; and a second
\* call on the same (root, name) gives the value of the first.
C4_DeriveIdIsFnv1a ==
    (idCalls >= 1) =>
        /\ Digits16(idOut) = WithBit63(Fnv1aOfRootAndName(idRoot, idName))
        /\ idOut[8] >= 128
        /\ (idCalls >= 2 => idPrev = idOut)

\* derive_id(0x0123456789abcdef, "MessageType") = 0x895b06ec3631cfec, twice
C4_Witness ==
    /\ idCalls = 2
    /\ idRoot = <<239, 205, 171, 137, 103, 69, 35, 1>>
    /\ idName = MessageTypeName
    /\ idOut = <<236, 207, 49, 54, 236, 6, 91, 137>>
    /\ idPrev = idOut

LowerHexChars == {"0", "1", "2", "3", "4", "5", "6", "7", "8", "9", "a", "b", "c", "d", "e", "f"}

\* C5: when an id x with bit 63 set has been written as the first line of a
\* file, format_id_as_hex(x) followed by ';', and the file has been read,
\* extract_file_id_from_capnp has returned x; and the line is '@0x', then
\* exactly 16 lowercase hexadecimal digits, then ';'.
C5_RootIdRoundTrip ==
    (idPc = "read" /\ idX[8] >= 128) =>
        LET line == first_line_of(idText)
        IN  /\ idBack = idX
            /\ Len(line) = 20
            /\ SubSeq(line, 1, 3) = <<"@", "0", "x">>
            /\ \A i \in 4..19 : line[i] \in LowerHexChars
            /\ line[20] = ";"

\* 0x8123456789abcdef written and read back
C5_Witness ==
    /\ idPc = "read"
    /\ idX = <<239, 205, 171, 137, 103, 69, 35, 129>>
    /\ idText = <<"@", "0", "x", "8", "1", "2", "3", "4", "5", "6", "7", "8", "9",
                  "a", "b", "c", "d", "e", "f", ";", NL>>
    /\ idBack = idX

(***************************************************************************)
(* The wire-schema emitter (capnp_file_generator.cpp), run again and again *)
(* on one output path while the schema is edited between the runs.  A      *)
(* schema is a record of two maps, enums and messages, keyed by name; the  *)
(* output file is its first line, character by character, followed by the  *)
(* rest of the header as whole pieces of text.  wOut is what the last run  *)
(* wrote, until the schema is edited; wFirst is what the first run wrote.  *)
(***************************************************************************)
NumTypeNames == 2

NumRandom == 1

MaxWireRuns == 2

TypeNamePool == << <<"A">>, <<"B", "_">>, <<"C", "c">>, <<"D", "9">>, <<"E">> >>

TypeNames == {TypeNamePool[i] : i \in 1..NumTypeNames}

\* What the random device may give
RandomValues == {RootOf(k) : k \in 0..NumRandom}

\* An explicit enum id of the input: 0x1
ExplicitIds == { <<1, 0, 0, 0, 0, 0, 0, 0>> }

EnumDecl(n, id) == [name |-> n, capnp_id |-> id, values |-> <<>>]

Message(n) == [name |-> n, id |-> U64Zero, parent_name |-> <<>>, fields |-> <<>>]

\* The enum the parser always adds
MessageTypeDecl == EnumDecl(MessageTypeName, U64Zero)

\* The prior contents of the output path: no file, or a file whose text is
\* one of these
PriorTexts ==
    { <<>>,
      <<"@", "0", "x", "1", ";", NL>>,
      <<"@", "0", "x", "0", ";", NL>>,
      <<"@", "0", "x", "F", "E", "D", "C", "B", "A", "9", "8", "7", "6", "5", "4", "3", "2", "1", "0", " ", ";", NL>>,
      <<"#", " ", "@", "0", "x", "7", "f", "f", "f", "f", "f", "f", "f", "f", "f", "f", "f", "f", "f", "f", "f", ";">>,
      <<"@", "0", "x", "1", "2", "3", "4", "5", "6", "7", "8", "9", "0", "1", "2", "3", "4", "5", "6", "7", ";", NL>>,
      <<NL, "@", "0", "x", "1", ";", NL>>,
      <<"h", "e", "l", "l", "o", NL>> }

\* The draft of the emitter that never reads the output path.
initialize_file_id_always_random(present, content) ==
    {generate_random_id(r) : r \in RandomValues}

\* CapnpFileGenerator::_initialize_file_id: the ids it may return
initialize_file_id(present, content) ==
    LET existing_id == extract_file_id_from_capnp(present, content)
    IN  IF existing_id # U64Zero THEN {existing_id}
        ELSE {generate_random_id(r) : r \in RandomValues}

\* ns.replace(pos, 1, "::") for every '.'
RECURSIVE replace_dots(_, _)
replace_dots(ns, pos) ==
    IF pos > Len(ns) THEN <<>>
    ELSE (IF ns[pos] = "." THEN <<":", ":">> ELSE <<ns[pos]>>) \o replace_dots(ns, pos + 1)

DefaultNamespace ==
    <<"c", "u", "r", "i", "o", "u", "s", ":", ":", "m", "e", "s", "s", "a", "g", "e">>

\* CapnpFileGenerator::_write_header
write_header(fileId, schema) ==
    LET ns == IF schema.namespace_name = <<>> THEN DefaultNamespace ELSE schema.namespace_name
    IN  format_id_as_hex(fileId) \o <<";", NL>>
        \o <<"using Cxx = import \"/capnp/c++.capnp\";", NL>>
        \o <<"$Cxx.namespace(\"">> \o replace_dots(ns, 1) \o <<"\");", NL, NL>>

\* CapnpFileGenerator::_write_enum: the id written for an enum
enum_id_of(fileId, enum_decl) ==
    IF enum_decl.capnp_id # U64Zero
    THEN Or64(enum_decl.capnp_id, CAPNP_ID_MSB_FLAG)
    ELSE derive_id(fileId, enum_decl.name)

\* CapnpFileGenerator::_write_struct: the id written for a struct
struct_id_of(fileId, message) == derive_id(fileId, message.name)

WireInit ==
    /\ wSchema \in
          { [namespace_name |-> <<"n", ".", "m">>,
             enums |-> [n \in {MessageTypeName} |-> MessageTypeDecl],
             messages |-> [n \in ms |-> Message(n)]] : ms \in SUBSET TypeNames }
    /\ wFile \in ({[present |-> FALSE, text |-> <<>>]}
                  \cup {[present |-> TRUE, text |-> t] : t \in PriorTexts})
    /\ wOut = <<>>
    /\ wFirst = <<>>
    /\ wRuns = 0
    /\ wEdited = FALSE
    /\ RegenIdle
    /\ IdIdle
    /\ ParseIdle
    /\ StructIdle
    /\ PairIdle
    /\ TypeIdle
    /\ LexIdle
    /\ RunIdle
    /\ BothIdle
    /\ NestIdle

\* CapnpFileGenerator::CapnpFileGenerator, a run that succeeds
RunWire ==
    /\ wRuns < MaxWireRuns
    /\ \E fileId \in initialize_file_id(wFile.present, wFile.text) :
           LET out == [fileId |-> fileId,
                       schema |-> wSchema,
                       enums |-> [n \in DOMAIN wSchema.enums |-> enum_id_of(fileId, wSchema.enums[n])],
                       structs |-> [n \in DOMAIN wSchema.messages |-> struct_id_of(fileId, wSchema.messages[n])]]
           IN  /\ wOut' = out
               /\ wFirst' = IF wRuns = 0 THEN out ELSE wFirst
               /\ wFile' = [present |-> TRUE, text |-> write_header(fileId, wSchema)]
    /\ wRuns' = wRuns + 1
    /\ wEdited' = FALSE
    /\ UNCHANGED wSchema
    /\ UNCHANGED notWireVars

UsedNames(schema) == DOMAIN schema.enums \cup DOMAIN schema.messages

WithoutKey(f, n) == [k \in DOMAIN f \ {n} |-> f[k]]

WithKey(f, n, v) == (n :> v) @@ f

EditStep ==
    /\ wRuns >= 1
    /\ wRuns < MaxWireRuns
    /\ wEdited' = TRUE
    /\ wOut' = <<>>
    /\ UNCHANGED <<wFile, wFirst, wRuns>>
    /\ UNCHANGED notWireVars

AddEnum ==
    /\ \E n \in TypeNames \ UsedNames(wSchema), id \in ExplicitIds \cup {U64Zero} :
           wSchema' = [wSchema EXCEPT !.enums = WithKey(@, n, EnumDecl(n, id))]
    /\ EditStep

AddMessage ==
    /\ \E n \in TypeNames \ UsedNames(wSchema) :
           wSchema' = [wSchema EXCEPT !.messages = WithKey(@, n, Message(n))]
    /\ EditStep

RemoveType ==
    /\ \E n \in UsedNames(wSchema) \ {MessageTypeName} :
           wSchema' = [wSchema EXCEPT !.enums = WithoutKey(@, n), !.messages = WithoutKey(@, n)]
    /\ EditStep

RenameType ==
    /\ \E old \in UsedNames(wSchema) \ {MessageTypeName}, new \in TypeNames \ UsedNames(wSchema) :
           wSchema' =
               IF old \in DOMAIN wSchema.enums
               THEN [wSchema EXCEPT !.enums =
                        WithKey(WithoutKey(@, old), new, [wSchema.enums[old] EXCEPT !.name = new])]
               ELSE [wSchema EXCEPT !.messages =
                        WithKey(WithoutKey(@, old), new, [wSchema.messages[old] EXCEPT !.name = new])]
    /\ EditStep

WireNext ==
    \/ RunWire
    \/ AddEnum
    \/ AddMessage
    \/ RemoveType
    \/ RenameType

SpecWire == WireInit /\ [][WireNext]_vars

\* The names whose id a run derived from the file id: the structs and the
\* enums without an explicit id
DerivedNames(out) ==
    DOMAIN out.structs \cup {n \in DOMAIN out.enums : out.schema.enums[n].capnp_id = U64Zero}

DerivedIdOf(out, n) == IF n \in DOMAIN out.structs THEN out.structs[n] ELSE out.enums[n]

\* C3: every run after the first writes the file header id the first run
\* wrote, whatever was added, removed or renamed in the schema in between,
\* and every struct and every enum without an explicit id that both runs
\* wrote under the same name has the same id in both.
C3_RootIdStable ==
    (wRuns >= 2 /\ ~wEdited) =>
        /\ wOut.fileId = wFirst.fileId
        /\ first_line_of(wFile.text) = format_id_as_hex(wFirst.fileId) \o <<";">>
        /\ \A n \in DerivedNames(wOut) \cap DerivedNames(wFirst) :
               DerivedIdOf(wOut, n) = DerivedIdOf(wFirst, n)

\* A second run, after edits, on a file that did not exist before the first:
\* the random id of the first run is still the header id, and a struct of
\* the first run is written again with its id
C3_Witness ==
    /\ wRuns = 2
    /\ ~wEdited
    /\ wOut.schema # wFirst.schema
    /\ wOut.fileId = wFirst.fileId
    /\ wOut.fileId \in {generate_random_id(r) : r \in RandomValues}
    /\ \E n \in DOMAIN wOut.structs \cap DOMAIN wFirst.structs : wOut.structs[n] = wFirst.structs[n]
    /\ \E n \in DOMAIN wFirst.structs : n \notin DOMAIN wOut.structs

HighHexChars == {"8", "9", "a", "b", "c", "d", "e", "f"}

\* C6: in every file a run has written, the file header id, every enum id
\* and every struct id has bit 63 set, whatever the output path held before.
C6_MsbEverywhere ==
    (wRuns >= 1 /\ ~wEdited) =>
        /\ wOut.fileId[8] >= 128
        /\ first_line_of(wFile.text)[4] \in HighHexChars
        /\ \A n \in DOMAIN wOut.enums : wOut.enums[n][8] >= 128
        /\ \A n \in DOMAIN wOut.structs : wOut.structs[n][8] >= 128

(***************************************************************************)
(* The schema parser (schema.cpp).  The input is a sequence of one-        *)
(* character strings; positions are counted from 1, so the position i of   *)
(* the code is i + 1 here and s.size() is reached at Len(s) + 1.           *)
(***************************************************************************)
\* <cctype> in the "C" locale, on the characters of the model
Digits == {Ascii[k] : k \in 17..26}

UpperLetters == {Ascii[k] : k \in 34..59}

LowerLetters == {Ascii[k] : k \in 66..91}

isspace(c) == c \in {" ", "\t", "\n", "\r", "\f"}

isdigit(c) == c \in Digits

isalpha(c) == c \in UpperLetters \cup LowerLetters

isalnum(c) == isalpha(c) \/ isdigit(c)

isupper(c) == c \in UpperLetters

isxdigit(c) == IsHexDigit(c)

tolower(c) == IF isupper(c) THEN Ascii[Ord(c) + 32 - 31] ELSE c

\* A value that is computed once and used under a name is written
\*     CHOOSE bound \in {(body) : name \in {value}} : TRUE
\* which is body with name standing for the value: a local variable of the
\* code, assigned once.

\* The first position from i on whose character does not satisfy P, the
\* position after the last character when there is none
ScanWhile(s, i, P(_)) ==
    (CHOOSE bound \in {(IF stops = {} THEN (IF i > Len(s) THEN i ELSE Len(s) + 1)
        ELSE CHOOSE j \in stops : \A k \in stops : j <= k)
        : stops \in {{j \in i..Len(s) : ~P(s[j])}}} : TRUE)

\* Trim
Trim(s) ==
    (CHOOSE bound \in {((CHOOSE bound \in {(IF keeps = {} THEN <<>>
            ELSE SubSeq(s, a, CHOOSE b \in keeps : \A k \in keeps : k <= b))
            : keeps \in {{b \in a..Len(s) : ~isspace(s[b])}}} : TRUE))
        : a \in {ScanWhile(s, 1, isspace)}} : TRUE)

\* out.back() = c
SetBack(out, c) == [out EXCEPT ![Len(out)] = c]

\* StripComments: the body of the loop for one character c, in state
\* acc.st with the text acc.out written so far
strip_char(acc, c) ==
    LET st == acc.st
        out == acc.out
    IN  CASE st = "N" ->
                IF c = "/" THEN [st |-> "SLASH", out |-> Append(out, " ")]
                ELSE [st |-> "N", out |-> Append(out, c)]
          [] st = "SLASH" ->
                IF c = "/" THEN [st |-> "LINE", out |-> SetBack(out, " ")]
                ELSE IF c = "*" THEN [st |-> "BLOCK", out |-> SetBack(out, " ")]
                ELSE [st |-> "N", out |-> Append(SetBack(out, "/"), c)]
          [] st = "LINE" ->
                IF c = NL THEN [st |-> "N", out |-> Append(out, NL)]
                ELSE [st |-> "LINE", out |-> out]
          [] st = "BLOCK" ->
                IF c = "*" THEN [st |-> "STAR", out |-> out]
                ELSE [st |-> "BLOCK", out |-> out]
          [] st = "STAR" ->
                IF c = "/" THEN [st |-> "N", out |-> out]
                ELSE IF c # "*" THEN [st |-> "BLOCK", out |-> out]
                ELSE [st |-> "STAR", out |-> out]

\* StripComments: the loop over the characters lo..hi, the first half of
\* the range and then the second
RECURSIVE strip_loop(_, _, _, _)
strip_loop(in, lo, hi, acc) ==
    IF lo > hi THEN acc
    ELSE IF lo = hi THEN strip_char(acc, in[lo])
    ELSE (CHOOSE bound \in {((CHOOSE bound \in {(strip_loop(in, mid + 1, hi, half))
                 : half \in {strip_loop(in, lo, mid, acc)}} : TRUE))
             : mid \in {(lo + hi) \div 2}} : TRUE)

StripComments(in) == strip_loop(in, 1, Len(in), [st |-> "N", out |-> <<>>]).out

\* SplitTopLevel: the body of the loop for one character ch; acc.nest is
\* the three counters <<a, b, c>> for <>, (), {}
split_char(acc, delim, ch) ==
    (CHOOSE bound \in {(IF ch = delim /\ n = <<0, 0, 0>>
            THEN [nest |-> n, cur |-> <<>>, out |-> Append(acc.out, Trim(acc.cur))]
            ELSE [nest |-> n, cur |-> Append(acc.cur, ch), out |-> acc.out])
        : n \in {CASE ch = "<" -> <<acc.nest[1] + 1, acc.nest[2], acc.nest[3]>>
           [] ch = ">" -> <<acc.nest[1] - 1, acc.nest[2], acc.nest[3]>>
           [] ch = "(" -> <<acc.nest[1], acc.nest[2] + 1, acc.nest[3]>>
           [] ch = ")" -> <<acc.nest[1], acc.nest[2] - 1, acc.nest[3]>>
           [] ch = "{" -> <<acc.nest[1], acc.nest[2], acc.nest[3] + 1>>
           [] ch = "}" -> <<acc.nest[1], acc.nest[2], acc.nest[3] - 1>>
           [] OTHER -> acc.nest}} : TRUE)

\* SplitTopLevel: the loop over the characters lo..hi, the first half of
\* the range and then the second
RECURSIVE split_loop(_, _, _, _, _)
split_loop(s, delim, lo, hi, acc) ==
    IF lo > hi THEN acc
    ELSE IF lo = hi THEN split_char(acc, delim, s[lo])
    ELSE (CHOOSE bound \in {((CHOOSE bound \in {(split_loop(s, delim, mid + 1, hi, half))
                 : half \in {split_loop(s, delim, lo, mid, acc)}} : TRUE))
             : mid \in {(lo + hi) \div 2}} : TRUE)

SplitTopLevel(s, delim) ==
    (CHOOSE bound \in {(IF Trim(acc.cur) # <<>> THEN Append(acc.out, Trim(acc.cur)) ELSE acc.out)
        : acc \in {split_loop(s, delim, 1, Len(s), [nest |-> <<0, 0, 0>>, cur |-> <<>>, out |-> <<>>])}} : TRUE)

(***************************************************************************)
(* Schema::Lexer.  A token is its text, whether it is the end of the       *)
(* stream, and the position i of the lexer after it.                       *)
(***************************************************************************)
is_sym(c) == c \in {"{", "}", "(", ")", "/", "*", ";", ",", "<", ">", ".", "|", "@"}

\* isalnum(d) || d == '_' || d == ':'
IdentTail(c) == isalnum(c) \/ c = "_" \/ c = ":"

\* s.substr(i, j - i)
substr(s, i, j) == SubSeq(s, i, IF j - 1 > Len(s) THEN Len(s) ELSE j - 1)

\* Lexer::next
lexer_next(s, i0) ==
    (CHOOSE bound \in {(IF i > Len(s) THEN [text |-> <<>>, eof |-> TRUE, i |-> i]
        ELSE IF is_sym(s[i]) THEN [text |-> <<s[i]>>, eof |-> FALSE, i |-> i + 1]
        ELSE IF isalpha(s[i]) \/ s[i] = "_"
        THEN (CHOOSE bound \in {([text |-> substr(s, i, j), eof |-> FALSE, i |-> j])
                 : j \in {ScanWhile(s, i + 1, IdentTail)}} : TRUE)
        ELSE IF isdigit(s[i]) \/ s[i] = "+" \/ s[i] = "-"
        THEN (CHOOSE bound \in {([text |-> substr(s, i, j), eof |-> FALSE, i |-> j])
                 : j \in {IF s[i] = "0" /\ i + 1 <= Len(s) /\ s[i + 1] \in {"x", "X"}
                  THEN ScanWhile(s, i + 3, isxdigit)
                  ELSE ScanWhile(s, i + 1, isdigit)}} : TRUE)
        ELSE [text |-> <<s[i]>>, eof |-> FALSE, i |-> i + 1])
        : i \in {ScanWhile(s, i0, isspace)}} : TRUE)

\* Lexer::peek: the token next() gives, with i set back to the position
\* saved before the call; none stands for std::nullopt
lexer_peek(s, i) ==
    (CHOOSE bound \in {((CHOOSE bound \in {([none |-> t.eof, text |-> t.text, eof |-> t.eof, i |-> saved])
        : t \in {lexer_next(s, i)}} : TRUE))
        : saved \in {i}} : TRUE)

(***************************************************************************)
(* Lexer of lexer.cpp: the same tokens, read with _position.               *)
(***************************************************************************)
\* Lexer::_read_number: the position after the number that starts at start
read_number(source, start) ==
    (CHOOSE bound \in {(IF position <= Len(source) /\ source[position] = "0"
           /\ position + 1 <= Len(source) /\ source[position + 1] \in {"x", "X"}
        THEN ScanWhile(source, position + 2, isxdigit)
        ELSE ScanWhile(source, position, isdigit))
        : position \in {IF source[start] \in {"+", "-"} THEN start + 1 ELSE start}} : TRUE)

\* Lexer::next_token
next_token(source, position0) ==
    (CHOOSE bound \in {(IF position > Len(source) THEN [text |-> <<>>, eof |-> TRUE, i |-> position]
        ELSE IF is_sym(source[position])
        THEN [text |-> <<source[position]>>, eof |-> FALSE, i |-> position + 1]
        ELSE IF isalpha(source[position]) \/ source[position] = "_"
        THEN (CHOOSE bound \in {([text |-> substr(source, position, end), eof |-> FALSE, i |-> end])
                 : end \in {ScanWhile(source, position + 1, IdentTail)}} : TRUE)
        ELSE IF isdigit(source[position]) \/ source[position] \in {"+", "-"}
        THEN (CHOOSE bound \in {([text |-> substr(source, position, end), eof |-> FALSE, i |-> end])
                 : end \in {read_number(source, position)}} : TRUE)
        ELSE [text |-> <<source[position]>>, eof |-> FALSE, i |-> position + 1])
        : position \in {ScanWhile(source, position0, isspace)}} : TRUE)

\* Mutant: the position saved before the call is not put back.
peek_token_without_restore(source, position) ==
    (CHOOSE bound \in {([none |-> token.eof, text |-> token.text, eof |-> token.eof, i |-> token.i])
        : token \in {next_token(source, position)}} : TRUE)

\* Lexer::peek_token
peek_token(source, position) ==
    (CHOOSE bound \in {((CHOOSE bound \in {([none |-> token.eof, text |-> token.text, eof |-> token.eof, i |-> saved_position])
        : token \in {next_token(source, position)}} : TRUE))
        : saved_position \in {position}} : TRUE)

\* Token::is
token_is(t, str) == ~t.eof /\ t.text = str

\* Token::is_ident
is_ident(t) ==
    /\ ~t.eof
    /\ t.text # <<>>
    /\ isalpha(t.text[1]) \/ t.text[1] = "_"
    /\ \A k \in 2..Len(t.text) : IdentTail(t.text[k])

\* Token::is_number
is_number(t) ==
    /\ ~t.eof
    /\ t.text # <<>>
    /\ LET text == t.text
           k == IF text[1] \in {"+", "-"} THEN 2 ELSE 1
       IN  /\ k <= Len(text)
           /\ IF k + 1 <= Len(text) /\ text[k] = "0" /\ text[k + 1] \in {"x", "X"}
              THEN /\ k + 1 # Len(text)
                   /\ \A j \in (k + 2)..Len(text) : isxdigit(text[j])
              ELSE \A j \in k..Len(text) : isdigit(text[j])

KwNamespace == <<"n", "a", "m", "e", "s", "p", "a", "c", "e">>

KwEnum == <<"e", "n", "u", "m">>

KwMessage == <<"m", "e", "s", "s", "a", "g", "e">>

KwExtends == <<"e", "x", "t", "e", "n", "d", "s">>

(***************************************************************************)
(* std::stoull and std::stoll: leading spaces, an optional sign, then the  *)
(* digits of the base; what follows the digits is ignored.  The result is  *)
(* ok = FALSE where the library throws (no digit, or a value out of range).*)
(***************************************************************************)
\* value * base + digit on eight limbs, and the carry out of the top limb
TimesPlus(value, base, digit) ==
    (CHOOSE bound \in {((CHOOSE bound \in {((CHOOSE bound \in {((CHOOSE bound \in {((CHOOSE bound \in {((CHOOSE bound \in {((CHOOSE bound \in {((CHOOSE bound \in {(<<s1 % 256, s2 % 256, s3 % 256, s4 % 256, s5 % 256, s6 % 256, s7 % 256, s8 % 256,
          s8 \div 256>>)
        : s8 \in {value[8] * base + (s7 \div 256)}} : TRUE))
        : s7 \in {value[7] * base + (s6 \div 256)}} : TRUE))
        : s6 \in {value[6] * base + (s5 \div 256)}} : TRUE))
        : s5 \in {value[5] * base + (s4 \div 256)}} : TRUE))
        : s4 \in {value[4] * base + (s3 \div 256)}} : TRUE))
        : s3 \in {value[3] * base + (s2 \div 256)}} : TRUE))
        : s2 \in {value[2] * base + (s1 \div 256)}} : TRUE))
        : s1 \in {value[1] * base + digit}} : TRUE)

RECURSIVE digits_loop(_, _, _, _)
digits_loop(value, text, k, base) ==
    IF k > Len(text) THEN [ok |-> TRUE, value |-> value]
    ELSE (CHOOSE bound \in {(IF next[9] # 0 THEN [ok |-> FALSE, value |-> U64Zero]
             ELSE digits_loop(SubSeq(next, 1, 8), text, k + 1, base))
             : next \in {TimesPlus(value, base, HexValue(text[k]))}} : TRUE)

\* 0 - value on uint64_t
Negate64(value) ==
    LET flipped == SubSeq([k \in 1..8 |-> 255 - value[k]], 1, 8)
    IN  SubSeq(TimesPlus(flipped, 1, 1), 1, 8)

IsDigitOfBase(c, base) == IF base = 16 THEN isxdigit(c) ELSE isdigit(c)

\* std::stoull(text, nullptr, base), base 10 or 16
stoull(text, base) ==
    (CHOOSE bound \in {((CHOOSE bound \in {((CHOOSE bound \in {((CHOOSE bound \in {(IF d1 = d0 THEN [ok |-> FALSE, value |-> U64Zero]
        ELSE (CHOOSE bound \in {((CHOOSE bound \in {(IF ~r.ok THEN r
                 ELSE IF b > a /\ text[a] = "-" THEN [ok |-> TRUE, value |-> Negate64(r.value)]
                 ELSE r)
                 : r \in {digits_loop(U64Zero, digits, 1, base)}} : TRUE))
                 : digits \in {SubSeq(text, d0, d1 - 1)}} : TRUE))
        : d1 \in {IF base = 16 THEN ScanWhile(text, d0, isxdigit) ELSE ScanWhile(text, d0, isdigit)}} : TRUE))
        : d0 \in {IF base = 16 /\ b + 2 <= Len(text) /\ text[b] = "0" /\ text[b + 1] \in {"x", "X"}
            /\ isxdigit(text[b + 2])
         THEN b + 2 ELSE b}} : TRUE))
        : b \in {IF a <= Len(text) /\ text[a] \in {"+", "-"} THEN a + 1 ELSE a}} : TRUE))
        : a \in {ScanWhile(text, 1, isspace)}} : TRUE)

\* The value of a word below 2^31 as an integer of the model
SmallValue(u) == u[1] + 256 * u[2] + 65536 * u[3] + 16777216 * u[4]

\* static_cast<std::int64_t> of a uint64_t (the integers of the model hold
\* the values between -2^31 and 2^31)
int64_of(u) == IF u[8] < 128 THEN SmallValue(u) ELSE 0 - SmallValue(Negate64(u))

\* std::stoll(text): a long long (its magnitude below 2^31 in the model)
stoll(text) ==
    (CHOOSE bound \in {((CHOOSE bound \in {((CHOOSE bound \in {(IF d1 = d0 THEN [ok |-> FALSE, value |-> 0]
        ELSE (CHOOSE bound \in {((CHOOSE bound \in {(IF ~r.ok \/ r.value[8] >= 128 THEN [ok |-> FALSE, value |-> 0]
                 ELSE IF d0 > a /\ text[a] = "-" THEN [ok |-> TRUE, value |-> 0 - SmallValue(r.value)]
                 ELSE [ok |-> TRUE, value |-> SmallValue(r.value)])
                 : r \in {digits_loop(U64Zero, digits, 1, 10)}} : TRUE))
                 : digits \in {SubSeq(text, d0, d1 - 1)}} : TRUE))
        : d1 \in {ScanWhile(text, d0, isdigit)}} : TRUE))
        : d0 \in {IF a <= Len(text) /\ text[a] \in {"+", "-"} THEN a + 1 ELSE a}} : TRUE))
        : a \in {ScanWhile(text, 1, isspace)}} : TRUE)

(***************************************************************************)
(* Type::parse_from_line (type.cpp): a type expression and a field name.   *)
(* A Type is a record; a child type that is not set is the empty sequence, *)
(* one that is set is the sequence of that one Type.                       *)
(***************************************************************************)
\* string_to_dsl_map
string_to_dsl_map ==
    { <<<<"i", "n", "t">>, "Int32">>,
      <<<<"i", "n", "t", "8">>, "Int8">>,
      <<<<"i", "n", "t", "1", "6">>, "Int16">>,
      <<<<"i", "n", "t", "3", "2">>, "Int32">>,
      <<<<"i", "n", "t", "6", "4">>, "Int64">>,
      <<<<"u", "i", "n", "t", "8">>, "Uint8">>,
      <<<<"u", "i", "n", "t", "1", "6">>, "Uint16">>,
      <<<<"u", "i", "n", "t", "3", "2">>, "Uint32">>,
      <<<<"u", "i", "n", "t", "6", "4">>, "Uint64">>,
      <<<<"f", "l", "o", "a", "t", "3", "2">>, "Float32">>,
      <<<<"f", "l", "o", "a", "t", "6", "4">>, "Float64">>,
      <<<<"b", "o", "o", "l">>, "Bool">>,
      <<<<"s", "t", "r", "i", "n", "g">>, "String">>,
      <<<<"b", "y", "t", "e", "s">>, "Bytes">>,
      <<<<"l", "i", "s", "t">>, "List">>,
      <<<<"m", "a", "p">>, "Map">>,
      <<<<"e", "n", "u", "m">>, "Enum">>,
      <<<<"a", "n", "y", "p", "o", "i", "n", "t", "e", "r">>, "AnyPointer">>,
      <<<<"v", "o", "i", "d">>, "Void">> }

\* dsl_to_capnp_map
dsl_to_capnp_map ==
    { <<"Int8", <<"I", "n", "t", "8">>>>,
      <<"Int16", <<"I", "n", "t", "1", "6">>>>,
      <<"Int32", <<"I", "n", "t", "3", "2">>>>,
      <<"Int64", <<"I", "n", "t", "6", "4">>>>,
      <<"Uint8", <<"U", "I", "n", "t", "8">>>>,
      <<"Uint16", <<"U", "I", "n", "t", "1", "6">>>>,
      <<"Uint32", <<"U", "I", "n", "t", "3", "2">>>>,
      <<"Uint64", <<"U", "I", "n", "t", "6", "4">>>>,
      <<"Float32", <<"F", "l", "o", "a", "t", "3", "2">>>>,
      <<"Float64", <<"F", "l", "o", "a", "t", "6", "4">>>>,
      <<"Bool", <<"B", "o", "o", "l">>>>,
      <<"String", <<"T", "e", "x", "t">>>>,
      <<"Bytes", <<"D", "a", "t", "a">>>>,
      <<"List", <<"L", "i", "s", "t">>>>,
      <<"Map", <<"M", "a", "p">>>>,
      <<"Enum", <<"E", "n", "u", "m">>>>,
      <<"AnyPointer", <<"A", "n", "y", "P", "o", "i", "n", "t", "e", "r">>>>,
      <<"Void", <<"V", "o", "i", "d">>>> }

to_lower(str) == SubSeq([k \in 1..Len(str) |-> tolower(str[k])], 1, Len(str))

is_list_keyword(identifier_lower) ==
    identifier_lower \in {<<"l", "i", "s", "t">>, <<"v", "e", "c", "t", "o", "r">>, <<"s", "t", "d", ":", ":", "v", "e", "c", "t", "o", "r">>}

is_map_keyword(identifier_lower) ==
    identifier_lower \in {<<"m", "a", "p">>, <<"u", "n", "o", "r", "d", "e", "r", "e", "d", "_", "m", "a", "p">>, <<"s", "t", "d", ":", ":", "m", "a", "p">>, <<"s", "t", "d", ":", ":", "u", "n", "o", "r", "d", "e", "r", "e", "d", "_", "m", "a", "p">>}

\* Mutant: the primitive table is looked up with the identifier as written only.
try_resolve_primitive_exact(identifier) ==
    LET exact == {p \in string_to_dsl_map : p[1] = identifier}
    IN  IF exact # {} THEN (CHOOSE p \in exact : TRUE)[2] ELSE ""

\* TypeParser::_try_resolve_primitive: the DslType, or "" when it is none
try_resolve_primitive(identifier) ==
    LET exact == {p \in string_to_dsl_map : p[1] = identifier}
        lower == {p \in string_to_dsl_map : p[1] = to_lower(identifier)}
    IN  IF exact # {} THEN (CHOOSE p \in exact : TRUE)[2]
        ELSE IF lower # {} THEN (CHOOSE p \in lower : TRUE)[2]
        ELSE ""

NoType ==
    [kind |-> "Primitive", primitiveType |-> "", customName |-> <<>>, fieldName |-> <<>>,
     elementType |-> <<>>, keyType |-> <<>>, valueType |-> <<>>]

TypeFailure(message) == [ok |-> FALSE, error |-> message, pos |-> 0, type |-> NoType, text |-> <<>>]

\* TypeParser::_read_identifier
read_identifier(src, pos) ==
    (CHOOSE bound \in {((CHOOSE bound \in {(IF end = start THEN TypeFailure("Expected identifier")
        ELSE [ok |-> TRUE, error |-> "", pos |-> ScanWhile(src, end, isspace), type |-> NoType,
              text |-> SubSeq(src, start, end - 1)])
        : end \in {ScanWhile(src, start, IdentTail)}} : TRUE))
        : start \in {ScanWhile(src, pos, isspace)}} : TRUE)

\* Mutant: a character that is not there is passed over in silence.
expect_char_or_skip(src, pos, expected) ==
    (CHOOSE bound \in {(IF p > Len(src) \/ src[p] # expected THEN p ELSE p + 1)
        : p \in {ScanWhile(src, pos, isspace)}} : TRUE)

\* TypeParser::_expect_char: the position after the character, 0 when it throws
expect_char(src, pos, expected) ==
    (CHOOSE bound \in {(IF p > Len(src) \/ src[p] # expected THEN 0 ELSE p + 1)
        : p \in {ScanWhile(src, pos, isspace)}} : TRUE)

\* TypeParser::_parse_type
RECURSIVE parse_type(_, _)
parse_type(src, pos) ==
    (CHOOSE bound \in {(IF ~id.ok THEN id
        ELSE IF is_list_keyword(to_lower(id.text))
        THEN (CHOOSE bound \in {(IF open = 0 THEN TypeFailure("Expected '<'")
                 ELSE (CHOOSE bound \in {(IF ~element.ok THEN element
                     ELSE (CHOOSE bound \in {(IF close = 0 THEN TypeFailure("Expected '>'")
                         ELSE [ok |-> TRUE, error |-> "", pos |-> close, text |-> <<>>,
                               type |-> [NoType EXCEPT !.kind = "List",
                                                       !.elementType = <<element.type>>]])
                              : close \in {expect_char(src, element.pos, ">")}} : TRUE))
                          : element \in {parse_type(src, open)}} : TRUE))
                 : open \in {expect_char(src, id.pos, "<")}} : TRUE)
        ELSE IF is_map_keyword(to_lower(id.text))
        THEN (CHOOSE bound \in {(IF open = 0 THEN TypeFailure("Expected '<'")
                 ELSE (CHOOSE bound \in {(IF ~key.ok THEN key
                     ELSE (CHOOSE bound \in {(IF comma = 0 THEN TypeFailure("Expected ','")
                         ELSE (CHOOSE bound \in {(IF ~value.ok THEN value
                             ELSE (CHOOSE bound \in {(IF close = 0 THEN TypeFailure("Expected '>'")
                                 ELSE [ok |-> TRUE, error |-> "", pos |-> close, text |-> <<>>,
                                       type |-> [NoType EXCEPT !.kind = "Map",
                                                               !.keyType = <<key.type>>,
                                                               !.valueType = <<value.type>>]])
                                      : close \in {expect_char(src, value.pos, ">")}} : TRUE))
                                  : value \in {parse_type(src, comma)}} : TRUE))
                              : comma \in {expect_char(src, key.pos, ",")}} : TRUE))
                          : key \in {parse_type(src, open)}} : TRUE))
                 : open \in {expect_char(src, id.pos, "<")}} : TRUE)
        ELSE (CHOOSE bound \in {([ok |-> TRUE, error |-> "", pos |-> id.pos, text |-> <<>>,
                  type |-> IF primitive_type # ""
                           THEN [NoType EXCEPT !.kind = "Primitive", !.primitiveType = primitive_type]
                           ELSE [NoType EXCEPT !.kind = "Custom", !.customName = id.text]])
                 : primitive_type \in {try_resolve_primitive(id.text)}} : TRUE))
        : id \in {read_identifier(src, pos)}} : TRUE)

\* TypeParser::parse
parse_from_line(line) ==
    (CHOOSE bound \in {(IF ~result.ok THEN result
        ELSE (CHOOSE bound \in {(IF ~field_name.ok THEN field_name
            ELSE (CHOOSE bound \in {([result EXCEPT !.type.fieldName = field_name.text,
                               !.pos = IF end <= Len(line) /\ line[end] = ";" THEN end + 1 ELSE end])
                     : end \in {ScanWhile(line, field_name.pos, isspace)}} : TRUE))
                 : field_name \in {read_identifier(line, result.pos)}} : TRUE))
        : result \in {parse_type(line, ScanWhile(line, 1, isspace))}} : TRUE)

\* Type::get_capnp_type
RECURSIVE get_capnp_type(_)
get_capnp_type(type) ==
    CASE type.kind = "Primitive" ->
            (CHOOSE p \in dsl_to_capnp_map : p[1] = type.primitiveType)[2]
      [] type.kind \in {"Custom", "Enum"} -> type.customName
      [] type.kind = "List" ->
            <<"L", "i", "s", "t", "(">> \o get_capnp_type(type.elementType[1]) \o <<")">>
      [] type.kind = "Map" ->
            <<"M", "a", "p", "(">> \o get_capnp_type(type.keyType[1]) \o <<",", " ">>
            \o get_capnp_type(type.valueType[1]) \o <<")">>

(***************************************************************************)
(* Schema::parse.  The state of a parse is the position i of the lexer,    *)
(* whether an error was raised (failed, with its message), and the members *)
(* of the Schema as they stand: namespace_name, messages, enums and        *)
(* messageOrder; the two maps are functions on the names they hold.        *)
(***************************************************************************)
\* Schema::Fail, raised with the lexer at position i
Failed(st, i, message) == [st EXCEPT !.failed = TRUE, !.error = message, !.i = i]

\* Schema::ReadBracedBlock, after the opening brace
RECURSIVE braced_loop(_, _, _, _)
braced_loop(s, i, depth, buf) ==
    (CHOOSE bound \in {(IF tk.eof THEN [ok |-> FALSE, error |-> "unexpected EOF inside '{...}'", buf |-> buf, i |-> tk.i]
        ELSE IF token_is(tk, <<"{">>)
        THEN (CHOOSE bound \in {(braced_loop(s, tk.i, depth + 1, next))
                 : next \in {Append(buf, "{")}} : TRUE)
        ELSE IF token_is(tk, <<"}">>)
        THEN IF depth - 1 = 0 THEN [ok |-> TRUE, error |-> "", buf |-> buf, i |-> tk.i]
             ELSE (CHOOSE bound \in {(braced_loop(s, tk.i, depth - 1, next))
                      : next \in {Append(buf, "}")}} : TRUE)
        ELSE (CHOOSE bound \in {(braced_loop(s, tk.i, depth, next))
                 : next \in {buf \o tk.text \o <<" ">>}} : TRUE))
        : tk \in {lexer_next(s, i)}} : TRUE)

\* Schema::ReadBracedBlock
ReadBracedBlock(s, i) ==
    (CHOOSE bound \in {(IF ~token_is(t, <<"{">>) THEN [ok |-> FALSE, error |-> "expected '{'", buf |-> <<>>, i |-> t.i]
        ELSE braced_loop(s, t.i, 1, <<>>))
        : t \in {lexer_next(s, i)}} : TRUE)

\* Schema::ParseNamespace, the loop over '.' and the parts
RECURSIVE namespace_loop(_, _, _)
namespace_loop(s, i, ns) ==
    (CHOOSE bound \in {(IF dot.none \/ ~token_is(dot, <<".">>) THEN [ok |-> TRUE, ns |-> ns, i |-> i]
        ELSE (CHOOSE bound \in {(IF ~is_ident(part) THEN [ok |-> FALSE, ns |-> ns, i |-> part.i]
                 ELSE (CHOOSE bound \in {(namespace_loop(s, part.i, next))
                          : next \in {ns \o <<".">> \o part.text}} : TRUE))
                 : part \in {lexer_next(s, lexer_next(s, i).i)}} : TRUE))
        : dot \in {lexer_peek(s, i)}} : TRUE)

\* Schema::ParseNamespace
ParseNamespace(s, st) ==
    (CHOOSE bound \in {(IF ~is_ident(t) THEN Failed(st, t.i, "expected identifier after 'namespace'")
        ELSE (CHOOSE bound \in {(IF ~r.ok THEN Failed(st, r.i, "expected identifier after '.'")
            ELSE (CHOOSE bound \in {(IF ~token_is(semi, <<";">>) THEN Failed(st, semi.i, "expected ';' after namespace")
                ELSE [st EXCEPT !.i = semi.i, !.namespace_name = r.ns])
                     : semi \in {lexer_next(s, r.i)}} : TRUE))
                 : r \in {namespace_loop(s, t.i, t.text)}} : TRUE))
        : t \in {lexer_next(s, lexer_next(s, st.i).i)}} : TRUE)

\* The counter is left where it was after an explicit value.
next_val_kept(next_val, value) == next_val

\* next_val = v._value + 1
next_val_after_explicit(next_val, value) == value + 1

\* Schema::ParseEnum, the loop over the items of the body
RECURSIVE enum_items_loop(_, _, _, _)
enum_items_loop(parts, k, next_val, values) ==
    IF k > Len(parts) THEN [ok |-> TRUE, error |-> "", values |-> values]
    ELSE
      (CHOOSE bound \in {(IF item = <<>> THEN enum_items_loop(parts, k + 1, next_val, values)
        ELSE
          (CHOOSE bound \in {(IF bars = {}
            THEN (CHOOSE bound \in {((CHOOSE bound \in {(enum_items_loop(parts, k + 1, counter, pushed))
                         : counter \in {next_val + 1}} : TRUE))
                     : pushed \in {Append(values, [name |-> Trim(item), value |-> next_val])}} : TRUE)
            ELSE
              (CHOOSE bound \in {((CHOOSE bound \in {((CHOOSE bound \in {(IF left = <<>> \/ right = <<>>
                THEN [ok |-> FALSE, error |-> "malformed enum item near '|'", values |-> values]
                ELSE
                  (CHOOSE bound \in {(IF ~parsed.ok
                    THEN [ok |-> FALSE, error |-> "enum value must be an integer", values |-> values]
                    ELSE
                      (CHOOSE bound \in {((CHOOSE bound \in {(enum_items_loop(parts, k + 1, counter, pushed))
                          : counter \in {next_val_after_explicit(next_val, parsed.value)}} : TRUE))
                          : pushed \in {Append(values, [name |-> left, value |-> parsed.value])}} : TRUE))
                      : parsed \in {stoll(right)}} : TRUE))
                  : right \in {Trim(SubSeq(item, bar + 1, Len(item)))}} : TRUE))
                  : left \in {Trim(SubSeq(item, 1, bar - 1))}} : TRUE))
                  : bar \in {CHOOSE p \in bars : \A q \in bars : p <= q}} : TRUE))
              : bars \in {{p \in 1..Len(item) : item[p] = "|"}}} : TRUE))
          : item \in {Trim(parts[k])}} : TRUE)

\* Schema::ParseEnum, the id after '@'
enum_id(s, i) ==
    (CHOOSE bound \in {(IF ~is_number(idTok)
        THEN [ok |-> FALSE, error |-> "expected numeric enum id after '@' (e.g., 0x1234)",
              value |-> U64Zero, i |-> idTok.i]
        ELSE (CHOOSE bound \in {([ok |-> val.ok, error |-> "stoull", value |-> val.value, i |-> idTok.i])
                 : val \in {IF Len(idTok.text) > 2 /\ idTok.text[1] = "0" /\ idTok.text[2] \in {"x", "X"}
                  THEN stoull(SubSeq(idTok.text, 3, Len(idTok.text)), 16)
                  ELSE stoull(idTok.text, 10)}} : TRUE))
        : idTok \in {lexer_next(s, lexer_next(s, i).i)}} : TRUE)

\* Schema::ParseEnum
ParseEnum(s, st) ==
    (CHOOSE bound \in {(IF ~is_ident(nm) THEN Failed(st, nm.i, "expected enum name")
      ELSE
        (CHOOSE bound \in {((CHOOSE bound \in {(IF ~id.ok THEN Failed(st, id.i, id.error)
          ELSE
            (CHOOSE bound \in {(IF ~block.ok THEN Failed(st, block.i, block.error)
              ELSE
                (CHOOSE bound \in {((CHOOSE bound \in {(IF ~items.ok THEN Failed(st, block.i, items.error)
                  ELSE
                    (CHOOSE bound \in {([st EXCEPT !.i = IF ~tk.none /\ token_is(tk, <<";">>)
                                       THEN lexer_next(s, block.i).i ELSE block.i,
                                 !.enums = WithKey(@, nm.text,
                                                   [name |-> nm.text, capnp_id |-> id.value,
                                                    values |-> items.values])])
                        : tk \in {lexer_peek(s, block.i)}} : TRUE))
                    : items \in {enum_items_loop(parts, 1, 0, <<>>)}} : TRUE))
                    : parts \in {SplitTopLevel(block.buf, ",")}} : TRUE))
                : block \in {ReadBracedBlock(s, id.i)}} : TRUE))
            : id \in {IF ~pk.none /\ token_is(pk, <<"@">>) THEN enum_id(s, nm.i)
             ELSE [ok |-> TRUE, error |-> "", value |-> U64Zero, i |-> nm.i]}} : TRUE))
            : pk \in {lexer_peek(s, nm.i)}} : TRUE))
        : nm \in {lexer_next(s, lexer_next(s, st.i).i)}} : TRUE)

\* Schema::StartsWithKw
StartsWithKw(s, kw) ==
    (CHOOSE bound \in {((CHOOSE bound \in {((CHOOSE bound \in {(j = Len(kw) /\ (i0 + j = Len(s) + 1 \/ isspace(s[i0 + j]) \/ s[i0 + j] = "<"))
        : j \in {CHOOSE m \in same : \A q \in same : q <= m}} : TRUE))
        : same \in {{j \in 0..Len(kw) : \A q \in 1..j : i0 + q - 1 <= Len(s) /\ s[i0 + q - 1] = kw[q]}}} : TRUE))
        : i0 \in {ScanWhile(s, 1, isspace)}} : TRUE)

\* Schema::NormalizeFieldLine
NormalizeFieldLine(raw) ==
    (CHOOSE bound \in {(LET NotSpace(c) == ~isspace(c)
        IN  IF line = <<>> THEN line
            ELSE IF StartsWithKw(line, KwEnum)
            THEN SubSeq(line, ScanWhile(line, ScanWhile(line, 1, NotSpace), isspace), Len(line))
            ELSE line)
        : line \in {Trim(raw)}} : TRUE)

\* Schema::AddFieldLine: the fields of the message after the line, or the
\* error of Type::from_line
AddFieldLine(fields, raw) ==
    (CHOOSE bound \in {(IF line = <<>> THEN [ok |-> TRUE, error |-> "", fields |-> fields]
        ELSE IF StartsWithKw(line, KwMessage) \/ StartsWithKw(line, KwEnum) \/ StartsWithKw(line, KwExtends)
        THEN [ok |-> TRUE, error |-> "", fields |-> fields]
        ELSE (CHOOSE bound \in {(IF ~type.ok THEN [ok |-> FALSE, error |-> type.error, fields |-> fields]
                 ELSE [ok |-> TRUE, error |-> "", fields |-> Append(fields, type.type)])
                 : type \in {parse_from_line(line)}} : TRUE))
        : line \in {NormalizeFieldLine(raw)}} : TRUE)

\* Schema::ParseMessage, the loop over the pieces of the body
RECURSIVE fields_loop(_, _, _)
fields_loop(pieces, k, fields) ==
    IF k > Len(pieces) THEN [ok |-> TRUE, error |-> "", fields |-> fields]
    ELSE IF pieces[k] = <<>> THEN fields_loop(pieces, k + 1, fields)
    ELSE (CHOOSE bound \in {(IF ~added.ok THEN added ELSE fields_loop(pieces, k + 1, added.fields))
             : added \in {AddFieldLine(fields, Append(pieces[k], ";"))}} : TRUE)

\* Schema::ParseMessage, the optional 'extends Base'
message_parent(s, i) ==
    (CHOOSE bound \in {(IF pk.none \/ ~token_is(pk, KwExtends) THEN [ok |-> TRUE, name |-> <<>>, i |-> i]
        ELSE (CHOOSE bound \in {([ok |-> is_ident(baseTok), name |-> baseTok.text, i |-> baseTok.i])
                 : baseTok \in {lexer_next(s, lexer_next(s, i).i)}} : TRUE))
        : pk \in {lexer_peek(s, i)}} : TRUE)

\* Schema::ParseMessage
ParseMessage(s, st) ==
    (CHOOSE bound \in {(IF ~is_ident(nameTok) THEN Failed(st, nameTok.i, "expected message name")
      ELSE
        (CHOOSE bound \in {(IF ~token_is(t, <<"(">>) THEN Failed(st, t.i, "expected '(' after message name")
          ELSE
            (CHOOSE bound \in {(IF ~is_number(num) THEN Failed(st, num.i, "expected numeric message id")
              ELSE
                (CHOOSE bound \in {(IF ~id.ok THEN Failed(st, num.i, "stoull")
                  ELSE
                    (CHOOSE bound \in {(IF ~token_is(close, <<")">>) THEN Failed(st, close.i, "expected ')'")
                      ELSE
                        (CHOOSE bound \in {(IF ~parent.ok THEN Failed(st, parent.i, "expected base after 'extends'")
                          ELSE
                            (CHOOSE bound \in {(IF ~block.ok THEN Failed(st, block.i, block.error)
                              ELSE
                                (CHOOSE bound \in {((CHOOSE bound \in {(IF ~added.ok THEN Failed(st, block.i, added.error)
                                  ELSE [st EXCEPT !.i = block.i,
                                                  !.messageOrder = Append(@, nameTok.text),
                                                  !.messages = WithKey(@, nameTok.text,
                                                      [name |-> nameTok.text, id |-> id.value,
                                                       parent_name |-> parent.name,
                                                       fields |-> added.fields])])
                                    : added \in {fields_loop(pieces, 1, <<>>)}} : TRUE))
                                    : pieces \in {SplitTopLevel(block.buf, ";")}} : TRUE))
                                : block \in {ReadBracedBlock(s, parent.i)}} : TRUE))
                            : parent \in {message_parent(s, close.i)}} : TRUE))
                        : close \in {lexer_next(s, num.i)}} : TRUE))
                    : id \in {stoull(num.text, 10)}} : TRUE))
                : num \in {lexer_next(s, t.i)}} : TRUE))
            : t \in {lexer_next(s, nameTok.i)}} : TRUE))
        : nameTok \in {lexer_next(s, lexer_next(s, st.i).i)}} : TRUE)

UndefinedName == <<"u", "n", "d", "e", "f", "i", "n", "e", "d">>

\* Schema::EnsureMessageTypeEnum, the loop over _messageOrder
\* Mutant: a synthesized value is put in front of the values of the enum.
push_front(values, ev) == <<ev>> \o values

\* mt._values.push_back(std::move(ev))
push_back(values, ev) == Append(values, ev)

RECURSIVE message_type_loop(_, _, _, _)
message_type_loop(st, k, existing, values) ==
    IF k > Len(st.messageOrder) THEN values
    ELSE
      (CHOOSE bound \in {(IF mname \in existing THEN message_type_loop(st, k + 1, existing, values)
        ELSE
          (CHOOSE bound \in {((CHOOSE bound \in {(IF name \in existing THEN message_type_loop(st, k + 1, existing, values)
            ELSE (CHOOSE bound \in {(message_type_loop(st, k + 1, existing, pushed))
                     : pushed \in {push_back(values, [name |-> name, value |-> int64_of(msg.id)])}} : TRUE))
              : name \in {IF msg.name # <<>> /\ isupper(msg.name[1])
               THEN <<tolower(msg.name[1])>> \o Tail(msg.name)
               ELSE msg.name}} : TRUE))
              : msg \in {st.messages[mname]}} : TRUE))
          : mname \in {st.messageOrder[k]}} : TRUE)

\* The enum is seeded only when the input declared messages.
seed_values_if_messages(values, order) ==
    IF values = <<>> /\ order # <<>> THEN <<[name |-> UndefinedName, value |-> 0]>> ELSE values

\* if (mt._values.empty()) mt._values.push_back({"undefined", 0})
seed_values(values, order) ==
    IF values = <<>> THEN <<[name |-> UndefinedName, value |-> 0]>> ELSE values

\* Schema::EnsureMessageTypeEnum
EnsureMessageTypeEnum(st) ==
    (CHOOSE bound \in {((CHOOSE bound \in {((CHOOSE bound \in {([st EXCEPT !.enums = WithKey(@, MessageTypeName,
                                     [name |-> MessageTypeName, capnp_id |-> U64Zero,
                                      values |-> values])])
        : values \in {message_type_loop(st, 1, existing, seeded)}} : TRUE))
        : existing \in {{seeded[k].name : k \in 1..Len(seeded)}}} : TRUE))
        : seeded \in {seed_values(IF MessageTypeName \in DOMAIN st.enums
                     THEN st.enums[MessageTypeName].values ELSE <<>>, st.messageOrder)}} : TRUE)

\* Schema::parse, the loop over the declarations
RECURSIVE parse_loop(_, _)
parse_loop(s, st) ==
    (CHOOSE bound \in {(IF tk.none THEN st
        ELSE (CHOOSE bound \in {(IF after.failed THEN after ELSE parse_loop(s, after))
                 : after \in {IF token_is(tk, KwNamespace) THEN ParseNamespace(s, st)
                  ELSE IF token_is(tk, KwEnum) THEN ParseEnum(s, st)
                  ELSE IF token_is(tk, KwMessage) THEN ParseMessage(s, st)
                  ELSE Failed(st, st.i, "expected 'namespace', 'enum', or 'message'")}} : TRUE))
        : tk \in {lexer_peek(s, st.i)}} : TRUE)

NoEntries == [n \in {} |-> n]

\* A Schema as its constructor leaves it
NewSchema == [namespace_name |-> <<>>, messages |-> NoEntries, enums |-> NoEntries, messageOrder |-> <<>>]

\* The parse that leaves the enums of the earlier parse in place.
parse_keeping_enums(self, content) ==
    (CHOOSE bound \in {((CHOOSE bound \in {((CHOOSE bound \in {(IF st.failed THEN st ELSE EnsureMessageTypeEnum(st))
        : st \in {parse_loop(text, cleared)}} : TRUE))
        : cleared \in {[i |-> 1, failed |-> FALSE, error |-> "",
          namespace_name |-> <<>>, messages |-> NoEntries,
          enums |-> self.enums, messageOrder |-> <<>>]}} : TRUE))
        : text \in {StripComments(content)}} : TRUE)

\* Schema::parse on a Schema whose members are self, the file holding content
parse(self, content) ==
    (CHOOSE bound \in {((CHOOSE bound \in {((CHOOSE bound \in {(IF st.failed THEN st ELSE EnsureMessageTypeEnum(st))
        : st \in {parse_loop(text, [i |-> 1, failed |-> FALSE, error |-> "",
                           namespace_name |-> cleared.namespace_name,
                           messages |-> cleared.messages,
                           enums |-> cleared.enums,
                           messageOrder |-> cleared.messageOrder])}} : TRUE))
        : cleared \in {[self EXCEPT !.namespace_name = <<>>, !.messages = NoEntries,
                      !.enums = NoEntries, !.messageOrder = <<>>]}} : TRUE))
        : text \in {StripComments(content)}} : TRUE)

\* The members of the Schema after a parse
SchemaOf(st) ==
    [namespace_name |-> st.namespace_name, messages |-> st.messages,
     enums |-> st.enums, messageOrder |-> st.messageOrder]

(***************************************************************************)
(* Enum numbering.  The input is one enum declaration whose body is a      *)
(* sequence of items; each item is kept with the text that declares it and *)
(* with what that text says: a name alone, a name with a signed decimal    *)
(* value, or nothing between two commas.                                   *)
(***************************************************************************)
\* Longest enum body
MaxItems == 3

EnumItems ==
    { [text |-> <<"A">>, kind |-> "auto", name |-> <<"A">>, value |-> 0],
      [text |-> <<"B", " ", "|", " ", "1", "0">>, kind |-> "explicit", name |-> <<"B">>, value |-> 10],
      [text |-> <<" ", "C">>, kind |-> "auto", name |-> <<"C">>, value |-> 0],
      [text |-> <<"D", "|", "-", "3", " ">>, kind |-> "explicit", name |-> <<"D">>, value |-> 0 - 3],
      [text |-> <<>>, kind |-> "empty", name |-> <<>>, value |-> 0] }

RECURSIVE ItemSeqs(_)
ItemSeqs(n) ==
    IF n = 0 THEN {<<>>}
    ELSE LET shorter == ItemSeqs(n - 1)
         IN  shorter \cup {Append(s, x) : s \in {t \in shorter : Len(t) = n - 1}, x \in EnumItems}

RECURSIVE JoinItems(_, _)
JoinItems(items, k) ==
    IF k > Len(items) THEN <<>>
    ELSE items[k].text \o (IF k < Len(items) THEN <<",">> ELSE <<>>) \o JoinItems(items, k + 1)

EnumName == <<"E">>

\* The declaration of enum E with the items as its body
EnumText(items) == <<"e", "n", "u", "m", " ", "E", " ", "{">> \o JoinItems(items, 1) \o <<"}">>

EnumInit ==
    /\ pItems \in ItemSeqs(MaxItems)
    /\ pInput = EnumText(pItems)
    /\ pPrev = <<>>
    /\ pPrevStatus = "none"
    /\ pBefore = NewSchema
    /\ pSchema = NewSchema
    /\ pStatus = "new"
    /\ RegenIdle
    /\ IdIdle
    /\ WireIdle
    /\ StructIdle
    /\ PairIdle
    /\ TypeIdle
    /\ LexIdle
    /\ RunIdle
    /\ BothIdle
    /\ NestIdle

\* Schema::parse on the input
ParseInput ==
    /\ pStatus = "new"
    /\ \E st \in {parse(pSchema, pInput)} :
          /\ pSchema' = SchemaOf(st)
          /\ pStatus' = IF st.failed THEN "failed" ELSE "ok"
    /\ pBefore' = pSchema
    /\ UNCHANGED <<pItems, pInput, pPrev, pPrevStatus>>
    /\ UNCHANGED notParseVars

EnumNext == ParseInput

SpecEnum == EnumInit /\ [][EnumNext]_vars

\* The numbering the items call for: a counter from 0, a name alone takes
\* the counter and advances it, an explicit value is taken as it is and
\* moves the counter to the value plus one, an empty item takes nothing.
RECURSIVE ReferenceNumbering(_, _, _)
ReferenceNumbering(items, k, counter) ==
    IF k > Len(items) THEN <<>>
    ELSE IF items[k].kind = "empty" THEN ReferenceNumbering(items, k + 1, counter)
    ELSE IF items[k].kind = "auto"
    THEN <<[name |-> items[k].name, value |-> counter]>> \o ReferenceNumbering(items, k + 1, counter + 1)
    ELSE <<[name |-> items[k].name, value |-> items[k].value]>>
         \o ReferenceNumbering(items, k + 1, items[k].value + 1)

\* C7: the enum body is accepted and the values of the enum are the
\* reference numbering of its items: counter from 0, NAME takes the counter
\* and increments it, NAME | VALUE takes VALUE and sets the counter to
\* VALUE + 1, empty items are skipped without consuming a number.
C7_EnumNumbering ==
    pStatus \in {"ok", "failed"} =>
        /\ pStatus = "ok"
        /\ EnumName \in DOMAIN pSchema.enums
        /\ pSchema.enums[EnumName].values = ReferenceNumbering(pItems, 1, 0)

\* { A, B | 10, C } was parsed and gave A=0, B=10, C=11
C7_Witness ==
    /\ pStatus = "ok"
    /\ pInput = <<"e", "n", "u", "m", " ", "E", " ", "{", "A", ",", "B", " ", "|", " ", "1", "0", ",", " ", "C", "}">>
    /\ pSchema.enums[EnumName].values =
          <<[name |-> <<"A">>, value |-> 0], [name |-> <<"B">>, value |-> 10], [name |-> <<"C">>, value |-> 11]>>

(***************************************************************************)
(* Parsing on one Schema instance.  The input is a sequence of             *)
(* declarations; before it the instance may have parsed another file, with *)
(* or without success.                                                     *)
(***************************************************************************)
\* Most declarations in an input
MaxDecls == 2

Declarations ==
    { <<"n", "a", "m", "e", "s", "p", "a", "c", "e", " ", "a", ".", "b", ";">>,
      <<"e", "n", "u", "m", " ", "E", " ", "{", " ", "A", ",", " ", "B", " ", "|", " ", "1", "0", " ", "}">>,
      <<"e", "n", "u", "m", " ", "M", "e", "s", "s", "a", "g", "e", "T", "y", "p", "e", " ", "{", " ", "f", "o", "o", " ", "|", " ", "5", " ", "}">>,
      <<"e", "n", "u", "m", " ", "M", "e", "s", "s", "a", "g", "e", "T", "y", "p", "e", " ", "{", "}">>,
      <<"m", "e", "s", "s", "a", "g", "e", " ", "F", "o", "o", " ", "(", "1", ")", " ", "{", " ", "i", "n", "t", "3", "2", " ", "a", ";", " ", "}">>,
      <<"m", "e", "s", "s", "a", "g", "e", " ", "B", "a", "r", " ", "(", "2", ")", " ", "e", "x", "t", "e", "n", "d", "s", " ", "F", "o", "o", " ", "{", "}">>,
      <<"m", "e", "s", "s", "a", "g", "e", " ", "M", " ", "(">> }

RECURSIVE DeclSeqs(_)
DeclSeqs(n) ==
    IF n = 0 THEN {<<>>}
    ELSE LET shorter == DeclSeqs(n - 1)
         IN  shorter \cup {Append(s, x) : s \in {t \in shorter : Len(t) = n - 1}, x \in Declarations}

RECURSIVE JoinDecls(_, _)
JoinDecls(decls, k) ==
    IF k > Len(decls) THEN <<>>
    ELSE decls[k] \o <<"\n">> \o JoinDecls(decls, k + 1)

Inputs == {JoinDecls(d, 1) : d \in DeclSeqs(MaxDecls)}

\* The files the instance may have parsed before the input
PreviousInputs ==
    { <<"n", "a", "m", "e", "s", "p", "a", "c", "e", " ", "x", ";", " ", "e", "n", "u", "m", " ", "K", " ", "{", " ", "P", " ", "|", " ", "4", " ", "}", " ", "m", "e", "s", "s", "a", "g", "e", " ", "O", "l", "d", " ", "(", "9", ")", " ", "{", " ", "s", "t", "r", "i", "n", "g", " ", "s", ";", " ", "}">>,
      <<"e", "n", "u", "m", " ", "M", "e", "s", "s", "a", "g", "e", "T", "y", "p", "e", " ", "{", " ", "o", "l", "d", " ", "|", " ", "3", " ", "}", " ", "m", "e", "s", "s", "a", "g", "e", " ", "F", "o", "o", " ", "(", "7", ")", " ", "{", " ", "b", "o", "o", "l", " ", "f", ";", " ", "}">>,
      <<"n", "a", "m", "e", "s", "p", "a", "c", "e", " ", "y", ";", " ", "m", "e", "s", "s", "a", "g", "e", " ", "G", "o", "n", "e", " ", "(", "3", ")", " ", "{", "}", " ", "e", "n", "u", "m", " ", "K", " ", "{", " ", "Q", " ">>,
      <<"b", "o", "g", "u", "s">> }

ParseInit ==
    /\ pItems = <<>>
    /\ pInput \in Inputs
    /\ pPrev \in PreviousInputs \cup {pInput}
    /\ pPrevStatus = "none"
    /\ pBefore = NewSchema
    /\ pSchema = NewSchema
    /\ pStatus = "new"
    /\ RegenIdle
    /\ IdIdle
    /\ WireIdle
    /\ StructIdle
    /\ PairIdle
    /\ TypeIdle
    /\ LexIdle
    /\ RunIdle
    /\ BothIdle
    /\ NestIdle

\* Schema::parse on the earlier file
ParsePrevious ==
    /\ pStatus = "new"
    /\ pPrevStatus = "none"
    /\ \E st \in {parse(pSchema, pPrev)} :
          /\ pSchema' = SchemaOf(st)
          /\ pPrevStatus' = IF st.failed THEN "failed" ELSE "ok"
    /\ UNCHANGED <<pItems, pInput, pPrev, pBefore, pStatus>>
    /\ UNCHANGED notParseVars

ParseNext == ParsePrevious \/ ParseInput

SpecParse == ParseInit /\ [][ParseNext]_vars

\* C9: after the input is parsed, the namespace, the message map, the enum
\* map (the MessageType value list with it), the message order and the
\* outcome are those of parsing the same input on a fresh instance,
\* whatever the instance parsed before and whether that parse succeeded.
C9_ReparseSafe ==
    pStatus \in {"ok", "failed"} =>
        LET fresh == parse(NewSchema, pInput)
        IN  /\ pSchema = SchemaOf(fresh)
            /\ pStatus = (IF fresh.failed THEN "failed" ELSE "ok")

\* the input was parsed on an instance that still held an enum, a message
\* and a namespace of an earlier file the input does not declare
C9_Witness ==
    /\ pStatus = "ok"
    /\ pPrevStatus \in {"ok", "failed"}
    /\ pBefore.namespace_name # <<>>
    /\ \E n \in DOMAIN pBefore.enums : n \notin DOMAIN pSchema.enums
    /\ \E n \in DOMAIN pBefore.messages : n \notin DOMAIN pSchema.messages
    /\ pSchema.namespace_name # pBefore.namespace_name
    /\ pSchema.messageOrder # <<>>

\* C10: after a successful parse the enum map has the key MessageType, the
\* enum there is named MessageType and has at least one value, and every
\* key of the message map and of the enum map is the name of its entity.
C10_MessageTypePresent ==
    pStatus = "ok" =>
        /\ MessageTypeName \in DOMAIN pSchema.enums
        /\ pSchema.enums[MessageTypeName].name = MessageTypeName
        /\ pSchema.enums[MessageTypeName].values # <<>>
        /\ \A n \in DOMAIN pSchema.enums : pSchema.enums[n].name = n
        /\ \A n \in DOMAIN pSchema.messages : pSchema.messages[n].name = n

\* an input that declares no enum and no message was accepted and the
\* MessageType enum holds undefined = 0 alone
C10_Witness ==
    /\ pStatus = "ok"
    /\ pSchema.messages = NoEntries
    /\ DOMAIN pSchema.enums = {MessageTypeName}
    /\ pSchema.enums[MessageTypeName].values = <<[name |-> UndefinedName, value |-> 0]>>

(***************************************************************************)
(* The struct emitter.  A struct is emitted as its name, its id and its    *)
(* field lines; a field line is the identifier, the ordinal and the type   *)
(* written on it.                                                          *)
(***************************************************************************)
\* CapnpFileGenerator::_to_capnp_identifier
to_capnp_identifier(identifier) ==
    SubSeq([k \in 1..Len(identifier) |-> IF isspace(identifier[k]) THEN "_" ELSE identifier[k]],
           1, Len(identifier))

\* The fields of the message are put ahead of the inherited ones.
RECURSIVE flatten_own_fields_first(_, _, _)
flatten_own_fields_first(schema, message, depth) ==
    IF depth > Cardinality(DOMAIN schema.messages) THEN [returns |-> FALSE, fields |-> <<>>]
    ELSE (CHOOSE bound \in {(IF ~inherited.returns THEN inherited
             ELSE [returns |-> TRUE, fields |-> message.fields \o inherited.fields])
             : inherited \in {IF message.parent_name # <<>> /\ message.parent_name \in DOMAIN schema.messages
              THEN flatten_own_fields_first(schema, schema.messages[message.parent_name], depth + 1)
              ELSE [returns |-> TRUE, fields |-> <<>>]}} : TRUE)

\* CapnpFileGenerator::_flatten_message_fields at the given depth of the
\* recursion.  A recursion deeper than the number of messages has met a
\* message twice and never returns.
RECURSIVE flatten_message_fields(_, _, _)
flatten_message_fields(schema, message, depth) ==
    IF depth > Cardinality(DOMAIN schema.messages) THEN [returns |-> FALSE, fields |-> <<>>]
    ELSE (CHOOSE bound \in {(IF ~inherited.returns THEN inherited
             ELSE [returns |-> TRUE, fields |-> inherited.fields \o message.fields])
             : inherited \in {IF message.parent_name # <<>> /\ message.parent_name \in DOMAIN schema.messages
              THEN flatten_message_fields(schema, schema.messages[message.parent_name], depth + 1)
              ELSE [returns |-> TRUE, fields |-> <<>>]}} : TRUE)

MsgTypeFieldName == <<"m", "s", "g", "T", "y", "p", "e">>

\* CapnpFileGenerator::_is_message_type_field
is_message_type_field(field) ==
    /\ field.kind \in {"Custom", "Enum"}
    /\ field.customName = MessageTypeName
    /\ field.fieldName = MsgTypeFieldName

\* CapnpFileGenerator::_write_struct
write_struct(fileId, schema, message) ==
    (CHOOSE bound \in {((CHOOSE bound \in {((CHOOSE bound \in {([returns |-> flat.returns,
         name |-> to_capnp_identifier(message.name),
         id |-> format_id_as_hex(struct_id_of(fileId, message)),
         lines |-> IF ~flat.returns THEN <<>>
                   ELSE (IF has_message_type_first THEN <<>>
                         ELSE <<[name |-> MsgTypeFieldName, ordinal |-> 0, type |-> MessageTypeName]>>)
                        \o SubSeq([k \in 1..Len(flat.fields) |->
                                      [name |-> to_capnp_identifier(flat.fields[k].fieldName),
                                       ordinal |-> first + k - 1,
                                       type |-> get_capnp_type(flat.fields[k])]],
                                  1, Len(flat.fields))])
        : first \in {IF has_message_type_first THEN 0 ELSE 1}} : TRUE))
        : has_message_type_first \in {flat.fields # <<>> /\ is_message_type_field(flat.fields[1])}} : TRUE))
        : flat \in {flatten_message_fields(schema, message, 1)}} : TRUE)

\* Messages in a schema
NumMessages == 3

MessageNamePool == <<<<"A">>, <<"B">>, <<"C">>, <<"D">>, <<"E">>>>

MessageNames == {MessageNamePool[k] : k \in 1..NumMessages}

UnknownParent == <<"Z">>

\* The field declarations of message n: one of a type of its own, named
\* after the message, and the msgType field
FieldLines(n) ==
    { (CASE n = <<"A">> -> <<"i", "n", "t", "3", "2", " ", "a", ";">>
         [] n = <<"B">> -> <<"l", "i", "s", "t", "<", "s", "t", "r", "i", "n", "g", ">", " ", "b", ";">>
         [] n = <<"C">> -> <<"m", "a", "p", "<", "s", "t", "r", "i", "n", "g", ",", " ", "i", "n", "t", "3", "2", ">", " ", "c", ";">>
         [] OTHER -> <<"b", "o", "o", "l", " ", "d", ";">>),
      <<"M", "e", "s", "s", "a", "g", "e", "T", "y", "p", "e", " ", "m", "s", "g", "T", "y", "p", "e", ";">> }

\* What message n may declare: none, one or both of its field lines, in
\* either order
DeclaredFields(n) ==
    (CHOOSE bound \in {({<<>>} \cup {<<x>> : x \in types}
               \cup {<<p[1], p[2]>> : p \in {q \in types \X types : q[1] # q[2]}})
        : types \in {{parse_from_line(x).type : x \in FieldLines(n)}}} : TRUE)

\* The fields of the first k messages of the pool, one choice for each
RECURSIVE FieldChoices(_)
FieldChoices(k) ==
    IF k = 0 THEN {<<>>}
    ELSE {Append(s, d) : s \in FieldChoices(k - 1), d \in DeclaredFields(MessageNamePool[k])}

\* Who extends whom: a chain in which every message extends the one before
\* it, a schema in which the first parent is not declared, and messages
\* that extend each other or themselves
ParentMaps ==
    { [k \in 1..NumMessages |-> IF k = 1 THEN <<>> ELSE MessageNamePool[k - 1]],
      [k \in 1..NumMessages |-> IF k = 1 THEN UnknownParent
                                ELSE IF k % 2 = 0 THEN MessageNamePool[k - 1] ELSE <<>>],
      [k \in 1..NumMessages |-> IF k = 1 THEN MessageNamePool[2]
                                ELSE IF k = 2 THEN MessageNamePool[1] ELSE MessageNamePool[k]] }

StructFileId == Or64(U64OfByte(1), CAPNP_ID_MSB_FLAG)

StructInit ==
    /\ fSchema \in
          { [namespace_name |-> <<>>,
             enums |-> (MessageTypeName :> MessageTypeDecl),
             messages |-> [n \in MessageNames |->
                              LET k == CHOOSE j \in 1..NumMessages : MessageNamePool[j] = n
                              IN  [name |-> n, id |-> U64Zero, parent_name |-> pm[k], fields |-> fs[k]]]] :
               pm \in ParentMaps,
               fs \in FieldChoices(NumMessages) }
    /\ fName = <<>>
    /\ fOut = <<>>
    /\ fState = "ready"
    /\ RegenIdle
    /\ IdIdle
    /\ WireIdle
    /\ ParseIdle
    /\ PairIdle
    /\ TypeIdle
    /\ LexIdle
    /\ RunIdle
    /\ BothIdle
    /\ NestIdle

\* CapnpFileGenerator::_write_struct for one message of the schema
WriteStruct ==
    /\ fState = "ready"
    /\ \E n \in DOMAIN fSchema.messages :
          \E out \in {write_struct(StructFileId, fSchema, fSchema.messages[n])} :
              /\ fName' = n
              /\ fOut' = [name |-> out.name, id |-> out.id, lines |-> out.lines]
              /\ fState' = IF out.returns THEN "written" ELSE "overflow"
    /\ UNCHANGED fSchema
    /\ UNCHANGED notStructVars

StructNext == WriteStruct

SpecStruct == StructInit /\ [][StructNext]_vars

\* The message n with its ancestors, the root-most first, when every
\* parent named on the way is declared and none is met twice
RECURSIVE Ancestry(_, _, _)
Ancestry(schema, n, visited) ==
    IF n \notin DOMAIN schema.messages \/ n \in visited THEN [resolves |-> FALSE, chain |-> <<>>]
    ELSE IF schema.messages[n].parent_name = <<>> THEN [resolves |-> TRUE, chain |-> <<n>>]
    ELSE LET up == Ancestry(schema, schema.messages[n].parent_name, visited \cup {n})
         IN  [resolves |-> up.resolves, chain |-> Append(up.chain, n)]

RECURSIVE FieldsAlong(_, _, _)
FieldsAlong(schema, chain, k) ==
    IF k > Len(chain) THEN <<>>
    ELSE schema.messages[chain[k]].fields \o FieldsAlong(schema, chain, k + 1)

DeclaresMsgType(field) ==
    field.fieldName = MsgTypeFieldName /\ field.customName = MessageTypeName

\* C8: for a message whose chain of parents resolves, the struct is
\* emitted; its ordinals are 0, 1, 2, ... in line order; line 0 is msgType
\* of type MessageType; the fields of the ancestors, root-most first, and
\* then the message's own follow in declaration order, after an inserted
\* msgType line unless the first of them already is msgType : MessageType.
C8_FlattenedOrdinals ==
    (fState \in {"written", "overflow"} /\ Ancestry(fSchema, fName, {}).resolves) =>
        LET flat == FieldsAlong(fSchema, Ancestry(fSchema, fName, {}).chain, 1)
            lines == fOut.lines
            own_first == flat # <<>> /\ DeclaresMsgType(flat[1])
            body == IF own_first THEN lines ELSE Tail(lines)
        IN  /\ fState = "written"
            /\ lines # <<>>
            /\ \A k \in 1..Len(lines) : lines[k].ordinal = k - 1
            /\ lines[1].name = MsgTypeFieldName
            /\ lines[1].type = MessageTypeName
            /\ Len(body) = Len(flat)
            /\ \A k \in 1..Len(flat) :
                  /\ body[k].name = flat[k].fieldName
                  /\ body[k].type = get_capnp_type(flat[k])

\* message B(..) extends A: the struct of B was emitted as msgType @0,
\* a @1, b @2
C8_Witness ==
    /\ fState = "written"
    /\ fName = <<"B">>
    /\ fSchema.messages[<<"B">>].parent_name = <<"A">>
    /\ fSchema.messages[<<"A">>].parent_name = <<>>
    /\ Len(fOut.lines) = 3
    /\ fOut.lines[1] = [name |-> MsgTypeFieldName, ordinal |-> 0, type |-> MessageTypeName]
    /\ fOut.lines[2] = [name |-> <<"a">>, ordinal |-> 1, type |-> <<"I", "n", "t", "3", "2">>]
    /\ fOut.lines[3] = [name |-> <<"b">>, ordinal |-> 2, type |-> <<"L", "i", "s", "t", "(", "T", "e", "x", "t", ")">>]

(***************************************************************************)
(* Schema::parse on message declarations: an input is an optional          *)
(* declaration of enum MessageType and a sequence of message declarations, *)
(* each kept with the name it declares, the token it has in parentheses    *)
(* and the unsigned 64-bit integer that token denotes (the empty sequence  *)
(* when it denotes none).                                                  *)
(***************************************************************************)
\* Most message declarations in an input
MaxMsgs == 2

U64(low, high) == <<low, high, 0, 0, 0, 0, 0, 0>>

MessageItems ==
    { [text |-> <<"m", "e", "s", "s", "a", "g", "e", " ", "F", "o", "o", " ", "(", "1", ")", " ", "{", "}">>, name |-> <<"F", "o", "o">>, token |-> <<"1">>, denotes |-> U64(1, 0)],
      [text |-> <<"m", "e", "s", "s", "a", "g", "e", " ", "f", "o", "o", " ", "(", "2", ")", " ", "{", " ", "i", "n", "t", "3", "2", " ", "a", ";", " ", "}">>, name |-> <<"f", "o", "o">>, token |-> <<"2">>, denotes |-> U64(2, 0)],
      [text |-> <<"m", "e", "s", "s", "a", "g", "e", " ", "F", "o", "o", " ", "(", "3", "0", "0", ")", " ", "{", "}">>, name |-> <<"F", "o", "o">>, token |-> <<"3", "0", "0">>, denotes |-> U64(44, 1)],
      [text |-> <<"m", "e", "s", "s", "a", "g", "e", " ", "B", "a", "r", " ", "(", "+", "7", ")", " ", "{", "}">>, name |-> <<"B", "a", "r">>, token |-> <<"+", "7">>, denotes |-> U64(7, 0)],
      [text |-> <<"m", "e", "s", "s", "a", "g", "e", " ", "H", "e", "x", " ", "(", "0", "x", "1", "0", ")", " ", "{", "}">>, name |-> <<"H", "e", "x">>, token |-> <<"0", "x", "1", "0">>, denotes |-> U64(16, 0)],
      [text |-> <<"m", "e", "s", "s", "a", "g", "e", " ", "N", "e", "g", " ", "(", "-", "1", ")", " ", "{", "}">>, name |-> <<"N", "e", "g">>, token |-> <<"-", "1">>, denotes |-> <<>>],
      [text |-> <<"m", "e", "s", "s", "a", "g", "e", " ", "B", "i", "g", " ", "(", "9", "9", "9", "9", "9", "9", "9", "9", "9", "9", "9", "9", "9", "9", "9", "9", "9", "9", "9", "9", ")", " ", "{", "}">>, name |-> <<"B", "i", "g">>,
       token |-> <<"9", "9", "9", "9", "9", "9", "9", "9", "9", "9", "9", "9", "9", "9", "9", "9", "9", "9", "9", "9">>, denotes |-> <<>>],
      [text |-> <<"m", "e", "s", "s", "a", "g", "e", " ", "z", "e", "d", " ", "(", "5", ")", " ", "e", "x", "t", "e", "n", "d", "s", " ", "F", "o", "o", " ", "{", "}">>, name |-> <<"z", "e", "d">>, token |-> <<"5">>, denotes |-> U64(5, 0)] }

\* What the input declares of enum MessageType: nothing, or values, in
\* front of the messages or behind them
DeclaredMessageTypes ==
    { [text |-> <<>>, first |-> TRUE, values |-> <<>>],
      [text |-> <<"e", "n", "u", "m", " ", "M", "e", "s", "s", "a", "g", "e", "T", "y", "p", "e", " ", "{", " ", "f", "o", "o", " ", "|", " ", "5", ",", " ", "z", "e", "d", " ", "}">>, first |-> TRUE,
       values |-> <<[name |-> <<"f", "o", "o">>, value |-> 5], [name |-> <<"z", "e", "d">>, value |-> 6]>>],
      [text |-> <<"e", "n", "u", "m", " ", "M", "e", "s", "s", "a", "g", "e", "T", "y", "p", "e", " ", "{", " ", "b", "a", "r", " ", "|", " ", "9", " ", "}", ";">>, first |-> FALSE,
       values |-> <<[name |-> <<"b", "a", "r">>, value |-> 9]>>] }

RECURSIVE MessageSeqs(_)
MessageSeqs(n) ==
    IF n = 0 THEN {<<>>}
    ELSE LET shorter == MessageSeqs(n - 1)
         IN  shorter \cup {Append(s, x) : s \in {t \in shorter : Len(t) = n - 1}, x \in MessageItems}

RECURSIVE JoinMessages(_, _)
JoinMessages(items, k) ==
    IF k > Len(items) THEN <<>>
    ELSE items[k].text \o <<"\n">> \o JoinMessages(items, k + 1)

MessagesText(in) ==
    IF in.declared.first
    THEN in.declared.text \o <<"\n">> \o JoinMessages(in.messages, 1)
    ELSE JoinMessages(in.messages, 1) \o in.declared.text

MsgInit ==
    /\ pItems \in [declared : DeclaredMessageTypes, messages : MessageSeqs(MaxMsgs)]
    /\ pInput = MessagesText(pItems)
    /\ pPrev = <<>>
    /\ pPrevStatus = "none"
    /\ pBefore = NewSchema
    /\ pSchema = NewSchema
    /\ pStatus = "new"
    /\ RegenIdle
    /\ IdIdle
    /\ WireIdle
    /\ StructIdle
    /\ PairIdle
    /\ TypeIdle
    /\ LexIdle
    /\ RunIdle
    /\ BothIdle
    /\ NestIdle

MsgNext == ParseInput

SpecMsg == MsgInit /\ [][MsgNext]_vars

\* The name the synthesis gives the value of a message
LowerFirst(name) ==
    IF name # <<>> /\ isupper(name[1]) THEN <<tolower(name[1])>> \o Tail(name) ELSE name

\* The names a, in their order, are picked from the names b, in their order
RECURSIVE PickedInOrder(_, _)
PickedInOrder(a, b) ==
    IF a = <<>> THEN TRUE
    ELSE IF b = <<>> THEN FALSE
    ELSE IF Head(a) = Head(b) THEN PickedInOrder(Tail(a), Tail(b))
    ELSE PickedInOrder(a, Tail(b))

MessageTypeValues == pSchema.enums[MessageTypeName].values

\* C11: the synthesis of MessageType removes and reorders nothing the user
\* declared: after a successful parse the values of MessageType start with
\* the values the input declares for it (same names, same integers, same
\* order), the synthesized values stand behind them (behind "undefined"
\* when the input declares none), and their names follow the order in
\* which the messages were declared.
C11_DeclaredValuesKept ==
    pStatus = "ok" =>
        LET declared == pItems.declared.values
            kept == IF declared = <<>> THEN 1 ELSE Len(declared)
            synthesized == SubSeq(MessageTypeValues, kept + 1, Len(MessageTypeValues))
        IN  /\ Len(MessageTypeValues) >= kept
            /\ declared # <<>> => SubSeq(MessageTypeValues, 1, kept) = declared
            /\ PickedInOrder([k \in 1..Len(synthesized) |-> synthesized[k].name],
                             [k \in 1..Len(pItems.messages) |-> LowerFirst(pItems.messages[k].name)])

C11_Witness ==
    /\ pStatus = "ok"
    /\ pItems.declared.values = <<[name |-> <<"f", "o", "o">>, value |-> 5], [name |-> <<"z", "e", "d">>, value |-> 6]>>
    /\ Len(pItems.messages) = 2
    /\ pItems.messages[1].name = <<"B", "a", "r">>
    /\ pItems.messages[2].name = <<"H", "e", "x">>
    /\ MessageTypeValues = <<[name |-> <<"f", "o", "o">>, value |-> 5], [name |-> <<"z", "e", "d">>, value |-> 6],
                             [name |-> <<"b", "a", "r">>, value |-> 7], [name |-> <<"h", "e", "x">>, value |-> 0]>>

\* C12: enum value names are unique: after a successful parse no enum of
\* the schema, MessageType after the synthesis included, holds two values
\* with the same name.
C12_ValueNamesUnique ==
    pStatus = "ok" =>
        \A e \in DOMAIN pSchema.enums :
            LET values == pSchema.enums[e].values
            IN  \A i, j \in 1..Len(values) : values[i].name = values[j].name => i = j

\* The last declaration of each message name is the one the schema keeps
LastOfItsName(items, k) == \A j \in (k + 1)..Len(items) : items[j].name # items[k].name

\* C20: the stored id of a message is the number in its parentheses: after
\* a successful parse every id token denotes an unsigned integer and the
\* message declared with it holds that integer as its id; a parse of an
\* input with a token that denotes none fails.
C20_IdIsTheNumberWritten ==
    pStatus = "ok" =>
        \A k \in 1..Len(pItems.messages) :
            LET item == pItems.messages[k]
            IN  /\ item.denotes # <<>>
                /\ LastOfItsName(pItems.messages, k) =>
                       /\ item.name \in DOMAIN pSchema.messages
                       /\ pSchema.messages[item.name].id = item.denotes

(***************************************************************************)
(* The regeneration merger on files without a marker pair, on empty slots  *)
(* and on text outside the slots.                                          *)
(***************************************************************************)
\* The marker pair of a slot in a text: the first start marker and the
\* first end marker behind it, 0 for a marker that is not there.
PairOf(content, slot) ==
    LET i == Find(content, slot[1], 1)
    IN  [start |-> i, end |-> IF i = 0 THEN 0 ELSE Find(content, slot[2], i + 1)]

HasPair(content, slot) == PairOf(content, slot).start # 0 /\ PairOf(content, slot).end # 0

\* The markers of the catalog of kind k, in the order of the template
CatalogMarkers(k) == [n \in 1..(2 * Len(SlotsOf(k))) |-> SlotsOf(k)[(n + 1) \div 2][2 - (n % 2)]]

\* The run of the emitter of kind k on a file
Regenerate(k, s, present, content) ==
    IF k = "header" THEN generate_header_for_message(s, present, content)
    ELSE IF k = "source" THEN generate_source_for_message(s, present, content)
    ELSE generate_enums_header(s, present, content)

\* C13: the merger never fails the run: for a file that does not exist or
\* cannot be read, a text without the start marker and a text with no end
\* marker behind the start marker the slot extraction gives the empty text,
\* and the artifact is written with every marker of the catalog, in the
\* order of the template.
C13_MergerNeverFails ==
    justRan =>
        /\ exists
        /\ PickedInOrder(CatalogMarkers(kind), file)
        /\ \A n \in 1..Len(SlotsOf(kind)) :
               LET slot == SlotsOf(kind)[n]
               IN  (~beforeExists \/ ~HasPair(before, slot)) =>
                       read_user_section(beforeExists, before, slot[1], slot[2]) = <<>>

C13_Witness ==
    /\ justRan
    /\ beforeExists
    /\ \E n \in 1..Len(SlotsOf(kind)) :
           LET pair == PairOf(before, SlotsOf(kind)[n])
           IN  /\ pair.start # 0
               /\ pair.end = 0
               /\ read_user_section(beforeExists, before, SlotsOf(kind)[n][1], SlotsOf(kind)[n][2]) = <<>>
    /\ exists
    /\ PickedInOrder(CatalogMarkers(kind), file)

\* The slot has no content in the text: its two marker lines are there and
\* the second directly follows the first.
EmptySlot(text, slot) ==
    LET v == SlotView(Lines(text), slot)
    IN  v.sl # 0 /\ v.el = v.sl + 1

DefaultDefinitions ==
    << <<"// Add your custom enum definitions or helper functions here">>,
       <<"// Example:">>,
       <<"// inline bool is_success(Status status) ...">> >>

MaxOutsideLen == 1

\* The marker pair of a slot as extract_between_markers finds it: the first
\* start marker, and the first end marker behind the end of its line.
MarkerPair(content, slot) ==
    LET found == Find(content, slot[1], 1)
        line_end == IF found = 0 THEN 0 ELSE Find(content, NL, found + 1)
        start_pos == IF line_end # 0 THEN line_end + 1 ELSE found + 1
    IN  [start |-> found, end |-> IF found = 0 THEN 0 ELSE Find(content, slot[2], start_pos)]

\* The text between the marker pairs of k in content
SlotTexts(content, k) ==
    [n \in 1..Len(SlotsOf(k)) |->
        LET pair == MarkerPair(content, SlotsOf(k)[n])
        IN  IF pair.start # 0 /\ pair.end # 0 THEN SubSeq(content, pair.start + 1, pair.end - 1) ELSE <<>>]

\* Where content can change without touching a marker pair or what stands
\* between one: position p is the gap behind the first p tokens.
OutsidePositions(content, k) ==
    {p \in 0..Len(content) :
        \A n \in 1..Len(SlotsOf(k)) :
            LET pair == MarkerPair(content, SlotsOf(k)[n])
            IN  (pair.start # 0 /\ pair.end # 0) => (p < pair.start \/ p >= pair.end)}

\* What the user writes outside the slots
OutsideTexts == SeqsUpTo({"y", NL}, MaxOutsideLen) \ {<<>>}

\* The files that differ from content outside the marker pairs only: a text
\* put in there, or a token that is no marker taken out there.
OutsideVariants(content, k) ==
    {InsertAt(content, p, text) : p \in OutsidePositions(content, k), text \in OutsideTexts}
    \cup {RemoveAt(content, p) : p \in {q \in 1..Len(content) :
                                          /\ content[q] \notin AllMarkerSet
                                          /\ q \in OutsidePositions(content, k)
                                          /\ q - 1 \in OutsidePositions(content, k)}}

\* The first file: what a run on no file writes, with nothing in the slots
\* or with a line of the user in one of them.
PairBases(k, s) ==
    LET clean == Regenerate(k, s, FALSE, <<>>)
    IN  {clean} \cup
        {LET found == Find(clean, SlotsOf(k)[n][1], 1)
         IN  InsertAt(clean, Find(clean, NL, found + 1), <<"x", NL>>) : n \in 1..Len(SlotsOf(k))}

PairInit ==
    /\ qKind \in Kinds
    /\ qSchema \in 1..NumSchemas
    /\ qA \in PairBases(qKind, qSchema)
    /\ qB \in OutsideVariants(qA, qKind)
    /\ qOutA = <<>>
    /\ qOutB = <<>>
    /\ qState = "start"
    /\ RegenIdle
    /\ IdIdle
    /\ WireIdle
    /\ ParseIdle
    /\ StructIdle
    /\ TypeIdle
    /\ LexIdle
    /\ RunIdle
    /\ BothIdle
    /\ NestIdle

\* One run of the emitter on each of the two files
RegeneratePair ==
    /\ qState = "start"
    /\ qOutA' = Regenerate(qKind, qSchema, TRUE, qA)
    /\ qOutB' = Regenerate(qKind, qSchema, TRUE, qB)
    /\ qState' = "done"
    /\ UNCHANGED <<qKind, qSchema, qA, qB>>
    /\ UNCHANGED notPairVars

PairNext == RegeneratePair

SpecPair == PairInit /\ [][PairNext]_vars

\* C15: text outside the slots does not influence the output: two prior
\* files of one artifact with the same text between every marker pair,
\* which differ outside the pairs, regenerate under the same schema to the
\* same artifact, and what the user wrote outside the slots is not in it.
C15_OutsideTextIgnored ==
    (qState = "done" /\ qA # qB /\ SlotTexts(qA, qKind) = SlotTexts(qB, qKind)) =>
        /\ qOutA = qOutB
        /\ \A p \in 1..Len(qOutB) : qOutB[p] # "y"

C15_Witness ==
    /\ qState = "done"
    /\ qA # qB
    /\ SlotTexts(qA, qKind) = SlotTexts(qB, qKind)
    /\ \E n \in 1..Len(SlotsOf(qKind)) : \E p \in 1..Len(SlotTexts(qA, qKind)[n]) : SlotTexts(qA, qKind)[n][p] = "x"
    /\ \E p \in 1..Len(qB) : qB[p] = "y"
    /\ \E p \in 1..Len(qOutB) : qOutB[p] = "x"
    /\ qOutA = qOutB

(***************************************************************************)
(* Type::parse_from_line on the lines of the grammar                       *)
(*     Field := TypeExpr Ident [';']                                       *)
(*     TypeExpr := ListKw '<' TypeExpr '>'                                 *)
(*               | MapKw '<' TypeExpr ',' TypeExpr '>' | Ident             *)
(* Each line comes with the tree the grammar gives it.                     *)
(***************************************************************************)
MaxDepth == 2

PrimitiveTree(dsl) == [NoType EXCEPT !.kind = "Primitive", !.primitiveType = dsl]

CustomTree(name) == [NoType EXCEPT !.kind = "Custom", !.customName = name]

ListTree(element) == [NoType EXCEPT !.kind = "List", !.elementType = <<element>>]

MapTree(key, value) == [NoType EXCEPT !.kind = "Map", !.keyType = <<key>>, !.valueType = <<value>>]

\* Bare identifiers: in the primitive table as written, in it after
\* lower-casing, and in it neither way.
LeafExprs ==
    { [text |-> <<"i", "n", "t">>, tree |-> PrimitiveTree("Int32")],
      [text |-> <<"U", "i", "n", "t", "6", "4">>, tree |-> PrimitiveTree("Uint64")],
      [text |-> <<"B", "O", "O", "L">>, tree |-> PrimitiveTree("Bool")],
      [text |-> <<"F", "o", "o">>, tree |-> CustomTree(<<"F", "o", "o">>)],
      [text |-> <<"n", "s", ":", ":", "B", "a", "r", "_", "2">>, tree |-> CustomTree(<<"n", "s", ":", ":", "B", "a", "r", "_", "2">>)] }

KeyExprs == {e \in LeafExprs : e.text \in {<<"i", "n", "t">>, <<"B", "O", "O", "L">>, <<"F", "o", "o">>}}

ListKeywords == {<<"l", "i", "s", "t">>, <<"v", "e", "c", "t", "o", "r">>, <<"s", "t", "d", ":", ":", "v", "e", "c", "t", "o", "r">>, <<"L", "i", "s", "t">>, <<"S", "T", "D", ":", ":", "V", "e", "c", "t", "o", "r">>}

MapKeywords == {<<"m", "a", "p">>, <<"u", "n", "o", "r", "d", "e", "r", "e", "d", "_", "m", "a", "p">>, <<"s", "t", "d", ":", ":", "m", "a", "p">>, <<"s", "t", "d", ":", ":", "u", "n", "o", "r", "d", "e", "r", "e", "d", "_", "m", "a", "p">>, <<"M", "a", "p">>, <<"S", "t", "d", ":", ":", "U", "n", "o", "r", "d", "e", "r", "e", "d", "_", "M", "a", "p">>}

ListExpr(kw, sp, e) ==
    [text |-> kw \o sp \o <<"<">> \o sp \o e.text \o sp \o <<">">>, tree |-> ListTree(e.tree)]

MapExpr(kw, sp, k, v) ==
    [text |-> kw \o sp \o <<"<">> \o sp \o k.text \o sp \o <<",">> \o sp \o v.text \o sp \o <<">">>,
     tree |-> MapTree(k.tree, v.tree)]

\* The type expressions below the outermost one, nested up to depth d,
\* written with sp around the punctuation.
RECURSIVE InnerExprs(_, _)
InnerExprs(d, sp) ==
    IF d = 0 THEN LeafExprs
    ELSE LET below == InnerExprs(d - 1, sp)
         IN  LeafExprs
             \cup {ListExpr(<<"v", "e", "c", "t", "o", "r">>, sp, e) : e \in below}
             \cup {MapExpr(<<"M", "a", "p">>, sp, k, v) : k \in {l \in KeyExprs : l.text # <<"F", "o", "o">>}, v \in below}

\* The type expressions nested up to depth d: every keyword at the
\* outermost level.
TypeExprs(d, sp) ==
    IF d = 0 THEN LeafExprs
    ELSE LET below == InnerExprs(d - 1, sp)
         IN  LeafExprs
             \cup {ListExpr(kw, sp, e) : kw \in ListKeywords, e \in below}
             \cup {MapExpr(kw, sp, k, v) : kw \in MapKeywords, k \in KeyExprs, v \in below}

\* How a field line is laid out: the blanks around the punctuation, the
\* name of the field and the text behind it.
Layouts ==
    { [sp |-> <<>>, name |-> <<"a">>, tail |-> <<>>],
      [sp |-> <<>>, name |-> <<"x">>, tail |-> <<";">>],
      [sp |-> <<" ">>, name |-> <<"v", "a", "l", "u", "e", "_", "2">>, tail |-> <<" ", ";">>] }

FieldLine(e, l) ==
    [text |-> l.sp \o e.text
              \o (IF l.sp = <<>> /\ e.tree.kind \in {"List", "Map"} THEN <<>> ELSE <<" ">>)
              \o l.name \o l.tail,
     tree |-> e.tree,
     name |-> l.name]

TypeLines == UNION {{FieldLine(e, l) : e \in TypeExprs(MaxDepth, l.sp)} : l \in Layouts}

TypeInit ==
    /\ tLine \in TypeLines
    /\ tResult = <<>>
    /\ tState = "line"
    /\ RegenIdle
    /\ IdIdle
    /\ WireIdle
    /\ ParseIdle
    /\ StructIdle
    /\ PairIdle
    /\ LexIdle
    /\ RunIdle
    /\ BothIdle
    /\ NestIdle

\* Type::parse_from_line(line)
ParseFromLine ==
    /\ tState = "line"
    /\ tResult' = parse_from_line(tLine.text)
    /\ tState' = "parsed"
    /\ UNCHANGED tLine
    /\ UNCHANGED notTypeVars

TypeNext == ParseFromLine

SpecType == TypeInit /\ [][TypeNext]_vars

\* C16: parse_from_line mirrors the grammar: every line of the grammar is
\* accepted and the Type is the tree of the line: a list keyword in any
\* letter case gives kind List with the element child only, a map keyword
\* kind Map with the key and the value child only, a bare identifier kind
\* Primitive when the primitive table has it as written or lower-cased and
\* kind Custom with the identifier as written otherwise; the field name of
\* the outermost Type is the identifier behind the type expression.
C16_ParseMirrorsGrammar ==
    tState = "parsed" =>
        /\ tResult.ok
        /\ tResult.type = [tLine.tree EXCEPT !.fieldName = tLine.name]

C16_Witness ==
    /\ tState = "parsed"
    /\ tResult.ok
    /\ tResult.type.kind = "Map"
    /\ tResult.type.fieldName = <<"v", "a", "l", "u", "e", "_", "2">>
    /\ tResult.type.keyType[1].primitiveType = "Bool"
    /\ tResult.type.valueType[1].kind = "List"
    /\ tResult.type.valueType[1].elementType[1].customName = <<"n", "s", ":", ":", "B", "a", "r", "_", "2">>
    /\ tResult.type.valueType[1].keyType = <<>>

(***************************************************************************)
(* The two lexers under any sequence of peek and next calls.  The last     *)
(* call, its result and the call before it are kept.                       *)
(***************************************************************************)
MaxSrcLen == 3

MaxLexCalls == 4

SrcAlphabet == {" ", "a", "0", "x", "-", "{"}

LexInit ==
    /\ lWhich \in {"Schema::Lexer", "Lexer"}
    /\ lSrc \in SeqsUpTo(SrcAlphabet, MaxSrcLen)
    /\ lPos = 1
    /\ lOp = "none"
    /\ lResult = <<>>
    /\ lPrevOp = "none"
    /\ lPrevResult = <<>>
    /\ lPosBefore = 1
    /\ lEofSeen = FALSE
    /\ lEofBefore = FALSE
    /\ lCalls = 0
    /\ RegenIdle
    /\ IdIdle
    /\ WireIdle
    /\ ParseIdle
    /\ StructIdle
    /\ PairIdle
    /\ TypeIdle
    /\ RunIdle
    /\ BothIdle
    /\ NestIdle

\* What a call leaves behind: r is the token and the position after it.
Called(op, r) ==
    /\ lCalls < MaxLexCalls
    /\ lCalls' = lCalls + 1
    /\ lPosBefore' = lPos
    /\ lPos' = r.i
    /\ lPrevOp' = lOp
    /\ lPrevResult' = lResult
    /\ lOp' = op
    /\ lResult' = [end |-> r.eof, text |-> r.text]
    /\ lEofBefore' = lEofSeen
    /\ lEofSeen' = (lEofSeen \/ (op = "next" /\ r.eof))
    /\ UNCHANGED <<lWhich, lSrc>>
    /\ UNCHANGED notLexVars

SchemaLexerPeek ==
    /\ lWhich = "Schema::Lexer"
    /\ \E r \in {lexer_peek(lSrc, lPos)} : Called("peek", r)

SchemaLexerNext ==
    /\ lWhich = "Schema::Lexer"
    /\ \E r \in {lexer_next(lSrc, lPos)} : Called("next", r)

LexerPeekToken ==
    /\ lWhich = "Lexer"
    /\ \E r \in {peek_token(lSrc, lPos)} : Called("peek", r)

LexerNextToken ==
    /\ lWhich = "Lexer"
    /\ \E r \in {next_token(lSrc, lPos)} : Called("next", r)

LexNext ==
    \/ SchemaLexerPeek
    \/ SchemaLexerNext
    \/ LexerPeekToken
    \/ LexerNextToken

SpecLexer == LexInit /\ [][LexNext]_vars

\* C17: peek has no effect on the stream: a peek leaves the position where
\* it was; a peek directly after a peek gives the same result; the next
\* that follows a peek returns the token the peek returned, and the end of
\* the stream exactly when the peek returned nothing; after a next has
\* returned the end of the stream every next returns it.
C17_PeekHasNoEffect ==
    /\ lOp = "peek" => lPos = lPosBefore
    /\ (lOp = "peek" /\ lPrevOp = "peek") => lResult = lPrevResult
    /\ (lOp = "next" /\ lPrevOp = "peek") => lResult = lPrevResult
    /\ (lOp = "next" /\ lEofBefore) => lResult.end

C17_Witness ==
    /\ lOp = "next"
    /\ lPrevOp = "peek"
    /\ lPosBefore > 1
    /\ ~lResult.end
    /\ Len(lResult.text) >= 2
    /\ lResult = lPrevResult
    /\ lPos > lPosBefore

(***************************************************************************)
(* main: one run of the tool.  The schema is parsed, then the emitters run *)
(* in the order wire schema, headers, sources; an exception of any of them *)
(* is caught at the end of main.  Each artifact on disk is absent, old (as *)
(* an earlier run left it), empty (opened for writing, nothing written     *)
(* yet) or new (written by this run).                                      *)
(***************************************************************************)
EmitterOrder == <<"wire", "header", "source">>

\* Mutant: an exception is reported and the run goes on with the next step.
on_exception_continue(stage) ==
    IF stage = "parse" THEN "parsed"
    ELSE IF stage = "source" THEN "exit0"
    ELSE stage

\* main, catch (const std::exception&): the run ends with status 2
on_exception(stage) == "exit2"

\* CapnpFileGenerator::_write_all_structs: whether it returns
write_all_structs(schema) ==
    \A n \in DOMAIN schema.messages :
        write_struct(StructFileId, schema, schema.messages[n]).returns

RunInputs ==
    { <<"m", "e", "s", "s", "a", "g", "e", " ", "A", " ", "(", "1", ")", " ", "{", " ", "i", "n", "t", "3", "2", " ", "a", ";", " ", "}">>,
      <<"n", "a", "m", "e", "s", "p", "a", "c", "e", " ", "n", ".", "m", ";", "\n", "m", "e", "s", "s", "a", "g", "e", " ", "A", " ", "(", "1", ")", " ", "{", "}", "\n", "m", "e", "s", "s", "a", "g", "e", " ", "B", " ", "(", "2", ")", " ", "e", "x", "t", "e", "n", "d", "s", " ", "A", " ", "{", " ", "b", "o", "o", "l", " ", "d", ";", " ", "}">>,
      <<"m", "e", "s", "s", "a", "g", "e", " ", "A", " ", "(", "1", ")", " ", "e", "x", "t", "e", "n", "d", "s", " ", "Z", " ", "{", " ", "b", "o", "o", "l", " ", "d", ";", " ", "}">>,
      <<"m", "e", "s", "s", "a", "g", "e", " ", "A", " ", "(", "1", ")", " ", "e", "x", "t", "e", "n", "d", "s", " ", "A", " ", "{", "}">>,
      <<"m", "e", "s", "s", "a", "g", "e", " ", "A", " ", "(", "1", ")", " ", "e", "x", "t", "e", "n", "d", "s", " ", "B", " ", "{", "}", "\n", "m", "e", "s", "s", "a", "g", "e", " ", "B", " ", "(", "2", ")", " ", "e", "x", "t", "e", "n", "d", "s", " ", "A", " ", "{", " ", "i", "n", "t", "3", "2", " ", "x", ";", " ", "}">>,
      <<"m", "e", "s", "s", "a", "g", "e", " ", "A", " ", "(", "1", ")", " ", "{", "}", "\n", "m", "e", "s", "s", "a", "g", "e", " ", "B", " ", "(", "2", ")", " ", "e", "x", "t", "e", "n", "d", "s", " ", "A", " ", "{", "}", "\n", "m", "e", "s", "s", "a", "g", "e", " ", "C", " ", "(", "3", ")", " ", "e", "x", "t", "e", "n", "d", "s", " ", "C", " ", "{", "}">>,
      <<"m", "e", "s", "s", "a", "g", " ", "A", " ", "(", "1", ")", " ", "{", "}">>,
      <<"m", "e", "s", "s", "a", "g", "e", " ", "A", " ", "(", "x", ")", " ", "{", "}">>,
      <<"m", "e", "s", "s", "a", "g", "e", " ", "A", " ", "(", "1", ")", " ", "{", "}", "\n", "m", "e", "s", "s", "a", "g", "e", " ", "B", " ", "(", "9", "9", "9", "9", "9", "9", "9", "9", "9", "9", "9", "9", "9", "9", "9", "9", "9", "9", "9", "9", ")", " ", "{", "}">>,
      <<"e", "n", "u", "m", " ", "E", " ", "{", " ", "A", ",", " ", "B", " ", "}", "\n", "m", "e", "s", "s", "a", "g", "e", " ", "A", " ", "(", "1", ")", " ", "{", " ", "E", " ", "e", ";", " ">> }

DiskStates == [{"wire", "header", "source"} -> {"absent", "old"}]

RunInit ==
    /\ rInput \in RunInputs
    /\ rCpp \in BOOLEAN
    /\ rFault \in {"none", "wire", "header", "source"}
    /\ rDisk0 \in DiskStates
    /\ rDisk = rDisk0
    /\ rPc = "start"
    /\ rSchema = NewSchema
    /\ rRan = <<>>
    /\ rRaised = "none"
    /\ RegenIdle
    /\ IdIdle
    /\ WireIdle
    /\ ParseIdle
    /\ StructIdle
    /\ PairIdle
    /\ TypeIdle
    /\ LexIdle
    /\ BothIdle
    /\ NestIdle

\* What the run does with an exception raised in stage
Raise(stage) ==
    /\ rPc' = on_exception(stage)
    /\ rRaised' = IF rRaised = "none" THEN stage ELSE rRaised

\* schema.parse(input_file)
ParseSchema ==
    /\ rPc = "start"
    /\ \E st \in {parse(NewSchema, rInput)} :
          IF st.failed
          THEN /\ Raise("parse")
               /\ UNCHANGED rSchema
          ELSE /\ rPc' = "parsed"
               /\ rSchema' = SchemaOf(st)
               /\ UNCHANGED rRaised
    /\ UNCHANGED <<rInput, rCpp, rFault, rDisk0, rDisk, rRan>>
    /\ UNCHANGED notRunVars

\* CapnpFileGenerator: the file is opened, which empties it, before the
\* content is made; a flattening that does not return ends the run there.
EmitWire ==
    /\ rPc = "parsed"
    /\ rRan' = Append(rRan, "wire")
    /\ IF rFault = "wire"
       THEN /\ Raise("wire")
            /\ UNCHANGED rDisk
       ELSE IF ~write_all_structs(rSchema)
       THEN /\ rPc' = "overflow"
            /\ rDisk' = [rDisk EXCEPT !["wire"] = "empty"]
            /\ UNCHANGED rRaised
       ELSE /\ rPc' = IF rCpp THEN "wire" ELSE "exit0"
            /\ rDisk' = [rDisk EXCEPT !["wire"] = "new"]
            /\ UNCHANGED rRaised
    /\ UNCHANGED <<rInput, rCpp, rFault, rDisk0, rSchema>>
    /\ UNCHANGED notRunVars

\* CppHeaderGenerator: a header per message
EmitHeaders ==
    /\ rPc = "wire"
    /\ rRan' = Append(rRan, "header")
    /\ IF rFault = "header"
       THEN /\ Raise("header")
            /\ UNCHANGED rDisk
       ELSE /\ rPc' = "header"
            /\ rDisk' = [rDisk EXCEPT !["header"] = "new"]
            /\ UNCHANGED rRaised
    /\ UNCHANGED <<rInput, rCpp, rFault, rDisk0, rSchema>>
    /\ UNCHANGED notRunVars

\* CppSourceGenerator: a source per message
EmitSources ==
    /\ rPc = "header"
    /\ rRan' = Append(rRan, "source")
    /\ IF rFault = "source"
       THEN /\ Raise("source")
            /\ UNCHANGED rDisk
       ELSE /\ rPc' = "exit0"
            /\ rDisk' = [rDisk EXCEPT !["source"] = "new"]
            /\ UNCHANGED rRaised
    /\ UNCHANGED <<rInput, rCpp, rFault, rDisk0, rSchema>>
    /\ UNCHANGED notRunVars

RunNext ==
    \/ ParseSchema
    \/ EmitWire
    \/ EmitHeaders
    \/ EmitSources

SpecRun == RunInit /\ [][RunNext]_vars

\* C18: run ordering: nothing on disk changes before the parse has
\* succeeded; after a parse error every artifact is as it was and no
\* emitter has run; after an error of an emitter the emitters behind it in
\* the order wire schema, headers, sources have not run and their artifacts
\* are as they were; the emitters run in that order.
C18_RunOrdering ==
    /\ rPc = "start" => (rDisk = rDisk0 /\ rRan = <<>>)
    /\ rRaised = "parse" => (rDisk = rDisk0 /\ rRan = <<>>)
    /\ rRan = SubSeq(EmitterOrder, 1, Len(rRan))
    /\ \A k \in 1..Len(EmitterOrder) :
           rRaised = EmitterOrder[k] =>
               /\ rRan = SubSeq(EmitterOrder, 1, k)
               /\ \A j \in k..Len(EmitterOrder) : rDisk[EmitterOrder[j]] = rDisk0[EmitterOrder[j]]

C18_Witness ==
    /\ rRaised = "header"
    /\ rPc = "exit2"
    /\ rRan = <<"wire", "header">>
    /\ rDisk0["source"] = "old"
    /\ rDisk["wire"] = "new"
    /\ rDisk["source"] = "old"

\* C19: the pipeline always terminates: a run on an input the parser
\* accepts ends with the wire schema written or with an error raised.
C19_PipelineTerminates ==
    rPc # "overflow"

(***************************************************************************)
(* The two lexers side by side on one source: each call takes the next     *)
(* token from both.                                                        *)
(***************************************************************************)
BothInit ==
    /\ eSrc \in SeqsUpTo(SrcAlphabet, MaxSrcLen)
    /\ ePosS = 1
    /\ ePosL = 1
    /\ eTokS = <<>>
    /\ eTokL = <<>>
    /\ eCalls = 0
    /\ RegenIdle
    /\ IdIdle
    /\ WireIdle
    /\ ParseIdle
    /\ StructIdle
    /\ PairIdle
    /\ TypeIdle
    /\ LexIdle
    /\ RunIdle
    /\ NestIdle

\* Schema::Lexer::next and Lexer::next_token, one call of each
BothLexersNext ==
    /\ eCalls < MaxLexCalls
    /\ IF eCalls = 0 THEN TRUE ELSE ~(eTokS[1].end /\ eTokL[1].end)
    /\ \E ts \in {lexer_next(eSrc, ePosS)}, tl \in {next_token(eSrc, ePosL)} :
          /\ ePosS' = ts.i
          /\ ePosL' = tl.i
          /\ eTokS' = <<[end |-> ts.eof, text |-> ts.text]>>
          /\ eTokL' = <<[end |-> tl.eof, text |-> tl.text]>>
    /\ eCalls' = eCalls + 1
    /\ UNCHANGED eSrc
    /\ UNCHANGED notBothVars

BothNext == BothLexersNext

SpecBoth == BothInit /\ [][BothNext]_vars

\* C30: the two lexers are equivalent: on every source the token that
\* Schema::Lexer::next returns and the token that Lexer::next_token returns
\* at the same place in the sequence are the same, the end of the stream
\* included.
C30_LexersAgree ==
    eTokS = eTokL

(***************************************************************************)
(* Enum bodies with NAME | VALUE items, well-formed and malformed.  An     *)
(* item is malformed when the name is empty or what follows the first '|'  *)
(* is not exactly one signed integer literal.                              *)
(***************************************************************************)
MaxBarItems == 2

BarItems ==
    { [text |-> <<"C">>, malformed |-> FALSE],
      [text |-> <<"B", " ", "|", " ", "7">>, malformed |-> FALSE],
      [text |-> <<"D", "|", "-", "3", " ">>, malformed |-> FALSE],
      [text |-> <<" ", "|", " ", "3">>, malformed |-> TRUE],
      [text |-> <<"A", " ", "|", " ">>, malformed |-> TRUE],
      [text |-> <<"A", " ", "|", " ", "x">>, malformed |-> TRUE],
      [text |-> <<"A", " ", "|", " ", "1", "0", " ", "j", "u", "n", "k">>, malformed |-> TRUE],
      [text |-> <<"A", " ", "|", " ", "1", " ", "|", " ", "2">>, malformed |-> TRUE],
      [text |-> <<"A", " ", "|", " ", "1", ".", "5">>, malformed |-> TRUE],
      [text |-> <<"A", " ", "|", " ", "-">>, malformed |-> TRUE] }

BarItemSeqs == UNION {[1..n -> BarItems] : n \in 1..MaxBarItems}

BarInit ==
    /\ pItems \in BarItemSeqs
    /\ pInput = EnumText(pItems)
    /\ pPrev = <<>>
    /\ pPrevStatus = "none"
    /\ pBefore = NewSchema
    /\ pSchema = NewSchema
    /\ pStatus = "new"
    /\ RegenIdle
    /\ IdIdle
    /\ WireIdle
    /\ StructIdle
    /\ PairIdle
    /\ TypeIdle
    /\ LexIdle
    /\ RunIdle
    /\ BothIdle
    /\ NestIdle

BarNext == ParseInput

SpecBar == BarInit /\ [][BarNext]_vars

\* C21: a malformed NAME | VALUE item is fatal: the parse of an enum body
\* that holds an item with '|' whose name is empty, or whose value is not
\* exactly one signed integer literal, aborts with an error.
C21_MalformedItemIsFatal ==
    (pStatus # "new" /\ \E k \in 1..Len(pItems) : pItems[k].malformed) => pStatus = "failed"

(***************************************************************************)
(* Field lines with malformed nesting: a line of the grammar, written with *)
(* blanks around the punctuation, from which one '<', '>' or ',' of a type *)
(* expression is taken out.                                                *)
(***************************************************************************)
SpacedLayout == [sp |-> <<" ">>, name |-> <<"v", "a", "l", "u", "e", "_", "2">>, tail |-> <<" ", ";">>]

NestedExprs == {e \in TypeExprs(1, <<" ">>) \cup InnerExprs(MaxDepth, <<" ">>) : e.tree.kind \in {"List", "Map"}}

\* The line of e without the character at position p
WithoutCharAt(e, p) ==
    LET line == FieldLine(e, SpacedLayout).text
    IN  [text |-> RemoveAt(line, p), missing |-> line[p]]

MalformedLines ==
    UNION {{WithoutCharAt(e, p) : p \in {q \in 1..Len(FieldLine(e, SpacedLayout).text) :
                                            FieldLine(e, SpacedLayout).text[q] \in {"<", ">", ","}}}
           : e \in NestedExprs}

\* What _expect_char puts in its error
ExpectedMessage(c) ==
    IF c = "<" THEN "Expected '<'" ELSE IF c = ">" THEN "Expected '>'" ELSE "Expected ','"

\* The message whose body is the line, alone or behind a well-formed field
MessageWithLine(line, behind) ==
    <<"m", "e", "s", "s", "a", "g", "e", " ", "A", " ", "(", "1", ")", " ", "{">> \o (IF behind THEN <<" ", "b", "o", "o", "l", " ", "o", "k", ";">> ELSE <<>>) \o line \o <<" ", "}">>

NestInit ==
    /\ nLine \in MalformedLines
    /\ nInput \in {MessageWithLine(nLine.text, behind) : behind \in BOOLEAN}
    /\ nStatus = "new"
    /\ nError = ""
    /\ nLineError = ""
    /\ RegenIdle
    /\ IdIdle
    /\ WireIdle
    /\ ParseIdle
    /\ StructIdle
    /\ PairIdle
    /\ TypeIdle
    /\ LexIdle
    /\ RunIdle
    /\ BothIdle

\* Schema::parse on the message, and Type::parse_from_line on the line alone
ParseMalformed ==
    /\ nStatus = "new"
    /\ \E st \in {parse(NewSchema, nInput)}, type \in {parse_from_line(nLine.text)} :
          /\ nStatus' = IF st.failed THEN "failed" ELSE "ok"
          /\ nError' = st.error
          /\ nLineError' = IF type.ok THEN "" ELSE type.error
    /\ UNCHANGED <<nLine, nInput>>
    /\ UNCHANGED notNestVars

NestNext == ParseMalformed

SpecNest == NestInit /\ [][NestNext]_vars

\* C22: malformed nesting in a field type is fatal and names the missing
\* character: for a line in which a list or map keyword is not followed by
\* '<', a list or map type lacks its closing '>' or a map lacks the ','
\* between key and value, parse_from_line raises the error that names that
\* character, and the parse of the schema whose message holds the line
\* aborts with the same error.
C22_MissingCharacterNamed ==
    nStatus # "new" =>
        /\ nLineError = ExpectedMessage(nLine.missing)
        /\ nStatus = "failed"
        /\ nError = ExpectedMessage(nLine.missing)

C22_Witness ==
    /\ nStatus = "failed"
    /\ nLine.missing = ","
    /\ nError = "Expected ','"
    /\ \E p \in 1..Len(nInput) : nInput[p] = "k"
    /\ \E p \in 1..Len(nLine.text) - 1 : nLine.text[p] = "<" /\ \E q \in (p + 1)..Len(nLine.text) : nLine.text[q] = "<"

(***************************************************************************)
(* Inputs that declare enum MessageType with an explicit id after '@',     *)
(* in front of the messages.                                               *)
(***************************************************************************)
DeclaredIds ==
    { [token |-> <<"@", "1">>, id |-> U64(1, 0)],
      [token |-> <<"@", " ", "2", "5", "5">>, id |-> U64(255, 0)],
      [token |-> <<"@", "0", "x", "1", "0">>, id |-> U64(16, 0)],
      [token |-> <<"@", "0", "X", "1", "f", "2">>, id |-> U64(242, 1)],
      [token |-> <<"@", "+", "7">>, id |-> U64(7, 0)] }

DeclaredBodies ==
    { [text |-> <<"{", " ", "f", "o", "o", " ", "|", " ", "5", ",", " ", "z", "e", "d", " ", "}">>,
       values |-> <<[name |-> <<"f", "o", "o">>, value |-> 5], [name |-> <<"z", "e", "d">>, value |-> 6]>>],
      [text |-> <<"{", " ", "b", "a", "r", " ", "}">>, values |-> <<[name |-> <<"b", "a", "r">>, value |-> 0]>>] }

DeclIdText(in) ==
    <<"e", "n", "u", "m", " ", "M", "e", "s", "s", "a", "g", "e", "T", "y", "p", "e", " ">> \o in.declared.token \o <<" ">> \o in.body.text \o <<"\n">>
    \o JoinMessages(in.messages, 1)

DeclIdInit ==
    /\ pItems \in [declared : DeclaredIds, body : DeclaredBodies, messages : MessageSeqs(MaxMsgs)]
    /\ pInput = DeclIdText(pItems)
    /\ pPrev = <<>>
    /\ pPrevStatus = "none"
    /\ pBefore = NewSchema
    /\ pSchema = NewSchema
    /\ pStatus = "new"
    /\ RegenIdle
    /\ IdIdle
    /\ WireIdle
    /\ StructIdle
    /\ PairIdle
    /\ TypeIdle
    /\ LexIdle
    /\ RunIdle
    /\ BothIdle
    /\ NestIdle

DeclIdNext == ParseInput

SpecDeclId == DeclIdInit /\ [][DeclIdNext]_vars

\* C23: the id of MessageType is forced to 0 only when the synthesis
\* creates the enum: after the parse of an input that declares enum
\* MessageType with the id N after '@', the Schema records N as the id of
\* MessageType, and the declared values are kept.
C23_DeclaredIdKept ==
    pStatus = "ok" =>
        /\ pSchema.enums[MessageTypeName].capnp_id = pItems.declared.id
        /\ SubSeq(pSchema.enums[MessageTypeName].values, 1, Len(pItems.body.values)) = pItems.body.values

(***************************************************************************)
(* Inputs with comments.  A comment comes with the whitespace that stands  *)
(* for it; the input is a message declaration with a comment, or none, in  *)
(* front of it, inside its body and behind it.                             *)
(***************************************************************************)
Comments ==
    { [text |-> <<>>, blank |-> <<>>],
      [text |-> <<"/", "/", " ", "b", "o", "o", "l", " ", "z", ";", "\n">>, blank |-> <<" ", "\n">>],
      [text |-> <<"/", "*", " ", "b", "o", "o", "l", " ", "y", ";", " ", "*", "/">>, blank |-> <<" ">>],
      [text |-> <<"/", "*", " ", "a", " ", "*", " ", "b", " ", "*", "*", "/">>, blank |-> <<" ">>],
      [text |-> <<"/", "/", " ", "x", " ", "/", "*", " ", "y", "\n">>, blank |-> <<" ", "\n">>],
      [text |-> <<"#", " ", "b", "o", "o", "l", " ", "h", ";", "\n">>, blank |-> <<" ", "\n">>] }

CommentedText(in) ==
    in[1].text \o <<"m", "e", "s", "s", "a", "g", "e", " ", "A", " ", "(", "1", ")", " ", "{">> \o in[2].text \o <<" ", "i", "n", "t", "3", "2", " ", "a", ";", " ", "}">> \o <<"\n">> \o in[3].text

\* The input with every comment replaced by its whitespace
BlankedText(in) ==
    in[1].blank \o <<"m", "e", "s", "s", "a", "g", "e", " ", "A", " ", "(", "1", ")", " ", "{">> \o in[2].blank \o <<" ", "i", "n", "t", "3", "2", " ", "a", ";", " ", "}">> \o <<"\n">> \o in[3].blank

StripInit ==
    /\ pItems \in [1..3 -> Comments]
    /\ pInput = CommentedText(pItems)
    /\ pPrev = <<>>
    /\ pPrevStatus = "none"
    /\ pBefore = NewSchema
    /\ pSchema = NewSchema
    /\ pStatus = "new"
    /\ RegenIdle
    /\ IdIdle
    /\ WireIdle
    /\ StructIdle
    /\ PairIdle
    /\ TypeIdle
    /\ LexIdle
    /\ RunIdle
    /\ BothIdle
    /\ NestIdle

StripNext == ParseInput

SpecStrip == StripInit /\ [][StripNext]_vars

\* C24: comments are stripped before lexing: no token the parse consumes
\* comes from inside a `//`, `/* */` or `#` comment, so the parse of an
\* input with comments has the outcome of the parse of the same input with
\* each comment replaced by whitespace (the newline of a line comment
\* kept).
C24_CommentsAreWhitespace ==
    pStatus # "new" =>
        LET st == parse(NewSchema, BlankedText(pItems))
        IN  /\ ~st.failed
            /\ pStatus = "ok"
            /\ pSchema = SchemaOf(st)

(***************************************************************************)
(* Runs of the wire-schema emitter on one output path with an unchanged    *)
(* schema, some of them interrupted while the file is written.  The        *)
(* constructor opens the output path, which empties it, and writes the     *)
(* whole text with one insertion: an interrupted write leaves a prefix of  *)
(* that text, the empty one included.                                      *)
(***************************************************************************)
CrashInit ==
    /\ wSchema \in
          { [namespace_name |-> <<"n", ".", "m">>,
             enums |-> [n \in {MessageTypeName} |-> MessageTypeDecl],
             messages |-> [n \in ms |-> Message(n)]] : ms \in SUBSET TypeNames }
    /\ wFile = [present |-> FALSE, text |-> <<>>]
    /\ wOut = <<>>
    /\ wFirst = <<>>
    /\ wRuns = 0
    /\ wEdited = FALSE
    /\ RegenIdle
    /\ IdIdle
    /\ ParseIdle
    /\ StructIdle
    /\ PairIdle
    /\ TypeIdle
    /\ LexIdle
    /\ RunIdle
    /\ BothIdle
    /\ NestIdle

\* CapnpFileGenerator::CapnpFileGenerator, interrupted at `output_file <<
\* content.str()` after len characters
InterruptedWrite ==
    /\ wRuns >= 1
    /\ wRuns < MaxWireRuns
    /\ \E fileId \in initialize_file_id(wFile.present, wFile.text) :
           \E len \in 0..Len(write_header(fileId, wSchema)) :
               wFile' = [present |-> TRUE,
                         text |-> SubSeq(write_header(fileId, wSchema), 1, len)]
    /\ UNCHANGED <<wSchema, wOut, wFirst, wRuns, wEdited>>
    /\ UNCHANGED notWireVars

CrashNext == RunWire \/ InterruptedWrite

SpecCrash == CrashInit /\ [][CrashNext]_vars

\* C25: after an interrupted write the next run regenerates every
\* schema-derived part as an uninterrupted history would have: the root id
\* of the wire schema, and with it the derived ids, that a completed run
\* writes are those the first completed run wrote.
C25_RootIdSurvivesInterruption ==
    wRuns >= 2 =>
        /\ wOut.fileId = wFirst.fileId
        /\ wOut.enums = wFirst.enums
        /\ wOut.structs = wFirst.structs

(***************************************************************************)
(* Two prior files of one artifact that differ between the markers of one  *)
(* slot only, each regenerated under the same schema.                      *)
(***************************************************************************)
\* What the user may write into a slot of kind k: lines of their own, or a
\* line that quotes a marker of the artifact
SlotEdits(k) ==
    {<<"x", NL>>, <<"y", NL>>} \cup {<<marker, NL, "y", NL>> : marker \in MarkersOf(k)}

\* The files that differ from content between the markers of one slot only:
\* a text put in behind the line of the slot's start marker
SlotVariants(content, k) ==
    {LET pair == MarkerPair(content, SlotsOf(k)[n])
     IN  InsertAt(content, Find(content, NL, pair.start + 1), text) :
        n \in 1..Len(SlotsOf(k)), text \in SlotEdits(k)}

SlotInit ==
    /\ qKind \in Kinds
    /\ qSchema \in 1..NumSchemas
    /\ qA \in PairBases(qKind, qSchema)
    /\ qB \in SlotVariants(qA, qKind)
    /\ qOutA = <<>>
    /\ qOutB = <<>>
    /\ qState = "start"
    /\ RegenIdle
    /\ IdIdle
    /\ WireIdle
    /\ ParseIdle
    /\ StructIdle
    /\ TypeIdle
    /\ LexIdle
    /\ RunIdle
    /\ BothIdle
    /\ NestIdle

SlotNext == RegeneratePair

SpecSlot == SlotInit /\ [][SlotNext]_vars

\* The slots of kind k that regeneration re-emits differently from the two
\* prior files a and b
SlotsReemittedDifferently(k, a, b) ==
    {n \in 1..Len(SlotsOf(k)) :
        read_user_section(TRUE, a, SlotsOf(k)[n][1], SlotsOf(k)[n][2])
            # read_user_section(TRUE, b, SlotsOf(k)[n][1], SlotsOf(k)[n][2])}

\* C26: slots are independent of each other: when two prior files differ
\* only in the text between the markers of one slot A, regeneration
\* re-emits the same text between the markers of every other slot B, so at
\* most one slot is re-emitted differently.
C26_SlotsIndependent ==
    qState = "done" => Cardinality(SlotsReemittedDifferently(qKind, qA, qB)) <= 1

\* Every field name is declared at most once along the chain
DeclaredOnce(flat) ==
    \A j, k \in 1..Len(flat) : flat[j].fieldName = flat[k].fieldName => j = k

\* C27: every emitted struct has exactly one field named msgType: for a
\* message whose chain of parents resolves and declares each field name at
\* most once, wherever `MessageType msgType` stands in the flattened field
\* list, the struct written holds the name msgType exactly once.
C27_ExactlyOneMsgType ==
    (/\ fState = "written"
     /\ Ancestry(fSchema, fName, {}).resolves
     /\ DeclaredOnce(FieldsAlong(fSchema, Ancestry(fSchema, fName, {}).chain, 1))) =>
        Cardinality({k \in 1..Len(fOut.lines) : fOut.lines[k].name = MsgTypeFieldName}) = 1

(***************************************************************************)
(* Message bodies of field lines, each ended by ';'.  A line is exact when *)
(* it is one type expression and one field name and nothing else.          *)
(***************************************************************************)
MaxFieldDecls == 2

FieldDecls ==
    { [text |-> <<"i", "n", "t", "3", "2", " ", "a">>, exact |-> TRUE],
      [text |-> <<"l", "i", "s", "t", "<", "s", "t", "r", "i", "n", "g", ">", " ", "b">>, exact |-> TRUE],
      [text |-> <<" ", "m", "a", "p", "<", "s", "t", "r", "i", "n", "g", ",", " ", "i", "n", "t", "3", "2", ">", " ", "c", " ">>, exact |-> TRUE],
      [text |-> <<"i", "n", "t", "3", "2", " ", "d", " ", "e">>, exact |-> FALSE],
      [text |-> <<"i", "n", "t", "3", "2", " ", "f", " ", "=", " ", "5">>, exact |-> FALSE],
      [text |-> <<"i", "n", "t", "3", "2", " ", "g", ",", " ", "h">>, exact |-> FALSE],
      [text |-> <<"b", "o", "o", "l", " ", "i", " ", "i", "n", "t", "3", "2", " ", "j">>, exact |-> FALSE],
      [text |-> <<"l", "i", "s", "t", "<", "i", "n", "t", "3", "2", ">", " ", "k", " ", ">">>, exact |-> FALSE],
      [text |-> <<"i", "n", "t", "3", "2">>, exact |-> FALSE] }

FieldDeclSeqs == UNION {[1..n -> FieldDecls] : n \in 1..MaxFieldDecls}

RECURSIVE BodyText(_, _)
BodyText(items, k) ==
    IF k > Len(items) THEN <<>>
    ELSE <<" ">> \o items[k].text \o <<";">> \o BodyText(items, k + 1)

FieldDeclInit ==
    /\ pItems \in FieldDeclSeqs
    /\ pInput = <<"m", "e", "s", "s", "a", "g", "e", " ", "A", " ", "(", "1", ")", " ", "{">> \o BodyText(pItems, 1) \o <<" ", "}">>
    /\ pPrev = <<>>
    /\ pPrevStatus = "none"
    /\ pBefore = NewSchema
    /\ pSchema = NewSchema
    /\ pStatus = "new"
    /\ RegenIdle
    /\ IdIdle
    /\ WireIdle
    /\ StructIdle
    /\ PairIdle
    /\ TypeIdle
    /\ LexIdle
    /\ RunIdle
    /\ BothIdle
    /\ NestIdle

FieldDeclNext == ParseInput

SpecFieldDecl == FieldDeclInit /\ [][FieldDeclNext]_vars

\* C28: no token of a field line is silently discarded: either every field
\* line of the body is exactly one type expression and one field name
\* before its ';' and the message stores one field for each line, or the
\* parse aborts with an error.
C28_NoTokenDiscarded ==
    pStatus = "ok" =>
        /\ \A k \in 1..Len(pItems) : pItems[k].exact
        /\ Len(pSchema.messages[<<"A">>].fields) = Len(pItems)

(***************************************************************************)
(* The factory (cpp_factory_generator.cpp): one case of the switch for     *)
(* each message of the schema.                                             *)
(***************************************************************************)
\* CppFactoryGenerator::_to_enum_value_name
to_enum_value_name(message_name) ==
    IF message_name = <<>> THEN message_name
    ELSE <<tolower(message_name[1])>> \o Tail(message_name)

\* CppFactoryGenerator::_generate_factory_content, the switch cases: the
\* label after MessageType:: of the case of each message
factory_case_labels(schema) ==
    [name \in DOMAIN schema.messages |-> to_enum_value_name(name)]

\* C29: the factory agrees with the synthesis of MessageType: after a
\* successful parse the case label the factory emits for a message names a
\* value of the schema's MessageType enum whose integer is the message's
\* id, and no two messages have the same case label.
C29_FactoryAgreesWithMessageType ==
    pStatus = "ok" =>
        LET labels == factory_case_labels(pSchema)
        IN  /\ \A n \in DOMAIN labels :
                  \E k \in 1..Len(MessageTypeValues) :
                      /\ MessageTypeValues[k].name = labels[n]
                      /\ MessageTypeValues[k].value = int64_of(pSchema.messages[n].id)
            /\ \A n, m \in DOMAIN labels : labels[n] = labels[m] => n = m

====
